---- MODULE Spec2Model ----
(***************************************************************************)
(* Evidence-budget verifier of berry (src/berry/hallucination_detector):   *)
(* claim splitting, prompt construction, log-probability extraction, the   *)
(* YES-probability estimator, the KL budget test and the two entry points. *)
(*                                                                         *)
(* Text is modelled by TLA+ strings read as character sequences (Len,      *)
(* SubSeq, \o).  Floating-point numbers are modelled in fixed point:       *)
(*   - a probability is an integer n; n = 3*i is the value i/Grid, and the *)
(*     offsets +1 / -1 stand for + 1e-12 / - 1e-12 (the clip constant of   *)
(*     _safe_clip), so 0.0 is 0, 1e-12 is 1, 1 - 1e-12 is One - 1 and 1.0  *)
(*     is One;                                                             *)
(*   - a logarithm (log-probability, KL term) is an integer number of      *)
(*     micro-nats; a product probability * logarithm is in Grid*micro-nats.*)
(***************************************************************************)
EXTENDS Integers, Sequences, FiniteSets, TLC

\* An Optional value: <<>> is None, <<v>> is the value v.
None == <<>>
Some(v) == <<v>>
IsNone(o) == o = <<>>
Val(o) == o[1]

Max(a, b) == IF a >= b THEN a ELSE b
Min(a, b) == IF a <= b THEN a ELSE b

RECURSIVE SeqMin(_)
SeqMin(s) == IF Len(s) = 1 THEN s[1] ELSE Min(s[1], SeqMin(Tail(s)))
RECURSIVE SeqMax(_)
SeqMax(s) == IF Len(s) = 1 THEN s[1] ELSE Max(s[1], SeqMax(Tail(s)))
RECURSIVE SeqSum(_)
SeqSum(s) == IF s = <<>> THEN 0 ELSE s[1] + SeqSum(Tail(s))

(***************************************************************************)
(* Fixed-point numbers                                                     *)
(***************************************************************************)
\* math.log at the probabilities 1/Grid .. (Grid-1)/Grid, in micro-nats.
LogTable == <<-2995732, -2302585, -1897120, -1609438, -1386294, -1203973, -1049822, -916291, -798508, -693147, -597837, -510826, -430783, -356675, -287682, -223144, -162519, -105361, -51293>>
Grid == Len(LogTable) + 1
One == 3 * Grid
Prob(i) == 3 * i
\* the number of grid steps in a probability (1e-12 offsets do not count)
Ticks(n) == (n + 1) \div 3
\* 1e-12, the default eps of _safe_clip and the floor of required_max
eps == 1
\* math.log(1e-12) and math.log(1 - 1e-12), in micro-nats
LogEps == -27631021
LogOneMinusEps == 0

\* math.log of a clipped probability
log(n) == IF n = eps THEN LogEps ELSE IF n = One - eps THEN LogOneMinusEps ELSE LogTable[n \div 3]
\* -math.inf, below every log-probability
NegInf == -2000000000
isfinite(x) == x # NegInf
\* math.exp of a log-probability: the probability whose logarithm it is
exp(lp) == IF lp = 0 THEN One ELSE IF lp = NegInf THEN 0 ELSE Prob(CHOOSE i \in 1..(Grid - 1) : LogTable[i] = lp)
\* the finite log-probabilities a completion reports
LogProbs == {LogTable[i] : i \in 1..(Grid - 1)} \cup {0}

_safe_clip(p) == Min(Max(p, eps), One - eps)

kl_bernoulli(a0, b0) == LET a == _safe_clip(a0)
                            b == _safe_clip(b0)
                        IN  Ticks(a) * (log(a) - log(b)) + Ticks(One - a) * (log(One - a) - log(One - b))

(***************************************************************************)
(* Text: Python str operations on strings read as character sequences      *)
(***************************************************************************)
Char(s, i) == SubSeq(s, i, i)
LowerLetters == "abcdefghijklmnopqrstuvwxyz"
UpperLetters == "ABCDEFGHIJKLMNOPQRSTUVWXYZ"
Digits == "0123456789"
\* c occurs in the string cs
InChars(c, cs) == \E i \in 1..Len(cs) : Char(cs, i) = c
IndexIn(c, cs) == CHOOSE i \in 1..Len(cs) : Char(cs, i) = c
\* str.isspace for one character (the regular expression class \s)
IsSpace(c) == c \in {" ", "\n", "\t"}
IsLetter(c) == InChars(c, LowerLetters) \/ InChars(c, UpperLetters)
IsDigit(c) == InChars(c, Digits)
\* the regular expression class \w
IsWord(c) == IsLetter(c) \/ IsDigit(c) \/ c = "_"

RECURSIVE lstrip(_)
lstrip(s) == IF s = "" THEN "" ELSE IF IsSpace(Head(s)) THEN lstrip(Tail(s)) ELSE s
RECURSIVE rstrip(_)
rstrip(s) == IF s = "" THEN "" ELSE IF IsSpace(Char(s, Len(s))) THEN rstrip(SubSeq(s, 1, Len(s) - 1)) ELSE s
strip(s) == rstrip(lstrip(s))

UpperChar(c) == IF InChars(c, LowerLetters) THEN Char(UpperLetters, IndexIn(c, LowerLetters)) ELSE c
LowerChar(c) == IF InChars(c, UpperLetters) THEN Char(LowerLetters, IndexIn(c, UpperLetters)) ELSE c
RECURSIVE upper(_)
upper(s) == IF s = "" THEN "" ELSE UpperChar(Head(s)) \o upper(Tail(s))
RECURSIVE lower(_)
lower(s) == IF s = "" THEN "" ELSE LowerChar(Head(s)) \o lower(Tail(s))

\* s[i:] and s[:i] with Python's 0-based index i
From(s, i) == SubSeq(s, i + 1, Len(s))
Upto(s, i) == SubSeq(s, 1, i)
startswith(s, p) == Len(p) <= Len(s) /\ SubSeq(s, 1, Len(p)) = p
endswith(s, p) == Len(p) <= Len(s) /\ SubSeq(s, Len(s) - Len(p) + 1, Len(s)) = p
\* sub in s
Contains(s, sub) == \E i \in 1..(Len(s) - Len(sub) + 1) : SubSeq(s, i, i + Len(sub) - 1) = sub

(***************************************************************************)
(* Probability extractor (stage_ab.py)                                     *)
(* A token record is [token, logprob, top_logprobs]; logprob is Optional;  *)
(* an alternative is [token, logprob].  A raised exception is the record   *)
(* [raised |-> Some(message)].                                             *)
(***************************************************************************)
Raise(msg) == [raised |-> Some(msg)]
Raised(r) == ~IsNone(r.raised)

_get_token(obj) == obj.token
_get_logprob(obj) == obj.logprob
_get_top_logprobs(obj) == obj.top_logprobs

\* the position loop of extract_answer_topk: the index (1-based) of the first
\* token whose stripped text is non-empty, the first position when none is
RECURSIVE FirstNonBlank(_, _)
FirstNonBlank(seq, i) == IF i > Len(seq) THEN 1 ELSE IF strip(_get_token(seq[i])) # "" THEN i ELSE FirstNonBlank(seq, i + 1)

\* the dict built from the alternatives: key = left-trimmed token, value =
\* the maximum log-probability seen under that key
RECURSIVE TopkDict(_, _)
TopkDict(top_list, topk) ==
    IF top_list = <<>> THEN topk
    ELSE LET t == Head(top_list)
             key == lstrip(_get_token(t))
             lp == _get_logprob(t)
         IN  IF IsNone(lp) \/ key = "" THEN TopkDict(Tail(top_list), topk)
             ELSE TopkDict(Tail(top_list), [k \in DOMAIN topk \cup {key} |-> IF k = key THEN (IF key \in DOMAIN topk THEN Max(topk[key], Val(lp)) ELSE Val(lp)) ELSE topk[k]])

\* the log-probabilities of the alternatives that carry one
RECURSIVE PresentLps(_)
PresentLps(top_list) == IF top_list = <<>> THEN <<>> ELSE (IF IsNone(_get_logprob(Head(top_list))) THEN <<>> ELSE <<Val(_get_logprob(Head(top_list)))>>) \o PresentLps(Tail(top_list))

EmptyDict == [k \in {} |-> 0]

\* pos: the position of the answer token in the sequence (1-based)
FirstPos(seq) == 1
AnswerPos(seq) == FirstNonBlank(seq, 1)

\* kth = min(lps) if lps else None
KthAsMax(lps) == IF lps # <<>> THEN Some(SeqMax(lps)) ELSE None
KthLogprob(lps) == IF lps # <<>> THEN Some(SeqMin(lps)) ELSE None

\* an extractor that reads an unreadable result as an answer token of
\* probability 1 without alternatives
ExtractWithDefaults(logprobs) ==
    [raised |-> None, pos |-> 0, generated_token |-> "", generated_logprob |-> 0, topk_logprobs |-> EmptyDict, kth_logprob |-> None]
extract_answer_topk(logprobs) ==
    IF IsNone(logprobs) THEN Raise("logprobs is None; call the API with logprobs enabled")
    ELSE LET seq == Val(logprobs) IN
         IF seq = <<>> THEN Raise("empty logprobs list")
         ELSE LET pos == AnswerPos(seq)
                  tokinfo == seq[pos]
                  gen_lp == _get_logprob(tokinfo)
                  top_list == _get_top_logprobs(tokinfo)
                  lps == PresentLps(top_list)
              IN  IF IsNone(gen_lp) THEN Raise("missing logprob for generated token")
                  ELSE [raised |-> None,
                        pos |-> pos - 1,
                        generated_token |-> _get_token(tokinfo),
                        generated_logprob |-> Val(gen_lp),
                        topk_logprobs |-> TopkDict(top_list, EmptyDict),
                        kth_logprob |-> KthLogprob(lps)]

(***************************************************************************)
(* Yes-probability estimator (trace_budget.py)                             *)
(***************************************************************************)
\* sum(math.exp(lp)) over the entries of the dict whose key is a YES
RECURSIVE SumExpYes(_, _)
SumExpYes(topk, keys) ==
    IF keys = {} THEN 0
    ELSE LET k == CHOOSE x \in keys : TRUE
         IN  exp(topk[k]) + SumExpYes(topk, keys \ {k})

\* the keys that are exactly YES
YesKeysExact(topk) == {tok \in DOMAIN topk : tok = "YES"}
YesKeys(topk) == {tok \in DOMAIN topk : upper(strip(tok)) = "YES"}

\* the estimator without min(max(p, 0.0), 1.0)
YesprobUnclamped(logprobs) ==
    LET topk == extract_answer_topk(logprobs) IN
    IF Raised(topk) THEN topk
    ELSE LET yes == YesKeys(topk.topk_logprobs)
             p == SumExpYes(topk.topk_logprobs, yes)
         IN  [raised |-> None,
              p_yes_lower |-> IF yes # {} THEN p ELSE 0,
              p_yes_upper |-> IF yes # {} THEN p ELSE IF ~IsNone(topk.kth_logprob) /\ isfinite(Val(topk.kth_logprob)) THEN exp(Val(topk.kth_logprob)) ELSE One,
              generated |-> topk.generated_token,
              generated_logprob |-> topk.generated_logprob,
              kth_logprob |-> topk.kth_logprob,
              topk |-> topk.topk_logprobs]
yesprob_from_logprobs(logprobs) ==
    LET topk == extract_answer_topk(logprobs) IN
    IF Raised(topk) THEN topk
    ELSE LET yes == YesKeys(topk.topk_logprobs)
             p == Min(Max(SumExpYes(topk.topk_logprobs, yes), 0), One)
         IN  [raised |-> None,
              p_yes_lower |-> IF yes # {} THEN p ELSE 0,
              p_yes_upper |-> IF yes # {} THEN p ELSE IF ~IsNone(topk.kth_logprob) /\ isfinite(Val(topk.kth_logprob)) THEN exp(Val(topk.kth_logprob)) ELSE One,
              generated |-> topk.generated_token,
              generated_logprob |-> topk.generated_logprob,
              kth_logprob |-> topk.kth_logprob,
              topk |-> topk.topk_logprobs]

(***************************************************************************)
(* Budget scorer: the decision procedure (trace_budget.py)                 *)
(***************************************************************************)
\* flagged = (req_min > obs_max) with >= in place of >
FlaggedNonStrict(req_min, obs_max) == req_min >= obs_max
Flagged(req_min, obs_max) == req_min > obs_max

_budget_from_intervals(target, p0_lo, p0_hi, p1_lo, p1_hi) ==
    LET req_min == kl_bernoulli(target, p0_hi)
        req_max == kl_bernoulli(target, Max(p0_lo, eps))
        obs_vals == <<kl_bernoulli(p1_lo, p0_lo), kl_bernoulli(p1_lo, p0_hi), kl_bernoulli(p1_hi, p0_lo), kl_bernoulli(p1_hi, p0_hi)>>
        obs_min == SeqMin(obs_vals)
        obs_max == SeqMax(obs_vals)
    IN  [req_min |-> req_min, req_max |-> req_max, obs_min |-> obs_min, obs_max |-> obs_max,
         gap_min |-> req_min - obs_max, gap_max |-> req_max - obs_min,
         flagged |-> Flagged(req_min, obs_max)]

(***************************************************************************)
(* Claim/trace normalizer: regular expressions of core.py                  *)
(***************************************************************************)
\* the end (exclusive, 1-based) of the maximal run of \w characters from i
RECURSIVE WordRunEnd(_, _)
WordRunEnd(s, i) == IF i <= Len(s) /\ IsWord(Char(s, i)) THEN WordRunEnd(s, i + 1) ELSE i
RECURSIVE AllDigits(_)
AllDigits(s) == s = "" \/ (IsDigit(Head(s)) /\ AllDigits(Tail(s)))
\* str.isdigit
isdigit(s) == s # "" /\ AllDigits(s)

\* _DEFAULT_CITE_RE = \[(?P<id>[A-Za-z]\w*|\d+)\] matched at position i:
\* the position after the closing bracket, 0 when there is no match at i
CiteEndAt(s, i) ==
    IF i > Len(s) \/ Char(s, i) # "[" THEN 0
    ELSE LET j == WordRunEnd(s, i + 1)
             id == SubSeq(s, i + 1, j - 1)
         IN  IF id # "" /\ (IsLetter(Head(id)) \/ AllDigits(id)) /\ j <= Len(s) /\ Char(s, j) = "]" THEN j + 1 ELSE 0

\* _DEFAULT_CITE_RE.search(s)
CiteSearch(s) == \E i \in 1..Len(s) : CiteEndAt(s, i) # 0

\* [m.group("id") for m in cite_re.finditer(text)], scanning from i
RECURSIVE CiteIdsFrom(_, _)
CiteIdsFrom(s, i) ==
    IF i > Len(s) THEN <<>>
    ELSE LET e == CiteEndAt(s, i)
         IN  IF e # 0 THEN <<SubSeq(s, i + 1, e - 2)>> \o CiteIdsFrom(s, e) ELSE CiteIdsFrom(s, i + 1)

_extract_cites(text) == CiteIdsFrom(text, 1)

\* _DEFAULT_CITE_RE.sub("", s), scanning from i
RECURSIVE CiteSubFrom(_, _)
CiteSubFrom(s, i) ==
    IF i > Len(s) THEN ""
    ELSE LET e == CiteEndAt(s, i)
         IN  IF e # 0 THEN CiteSubFrom(s, e) ELSE Char(s, i) \o CiteSubFrom(s, i + 1)

RECURSIVE SpaceRunEnd(_, _)
SpaceRunEnd(s, i) == IF i <= Len(s) /\ IsSpace(Char(s, i)) THEN SpaceRunEnd(s, i + 1) ELSE i

\* the repetition (?:\[...\]\s*)+ from position i: the position after the
\* last marker and the white space that follows it (i when no marker is at i)
RECURSIVE CiteRunEnd(_, _)
CiteRunEnd(s, i) == LET e == CiteEndAt(s, i) IN IF e = 0 THEN i ELSE CiteRunEnd(s, SpaceRunEnd(s, e))

\* cite_prefix_re = ^\s*(?:\[(?:[A-Za-z]\w*|\d+)\]\s*)+ : m.end() as a count
\* of characters, 0 when the expression does not match
CitePrefixEnd(seg) ==
    LET i == SpaceRunEnd(seg, 1)
        e == CiteRunEnd(seg, i)
    IN  IF e = i THEN 0 ELSE e - 1

\* the characters of the class [\\s,;:.\\-<en dash><em dash>!?] of line 96 as
\* the raw string spells it: a backslash, s, the range from the backslash to
\* the en dash (of which the answers here use ] ^ _ a-z { | } ~) and , ; : . ! ?
StripClassChars == "\\s,;:.]^_abcdefghijklmnopqrstuvwxyz{|}~!?"
\* the class [\s,;:.\-!?]: white space and punctuation
SpacePunctChars == " \n\t,;:.-!?"

\* re.sub("[class]+", "", s)
RECURSIVE RemoveChars(_, _)
RemoveChars(s, class) == IF s = "" THEN "" ELSE (IF InChars(Head(s), class) THEN "" ELSE Head(s)) \o RemoveChars(Tail(s), class)

\* _SENTENCE_SPLIT_RE.split(a), _SENTENCE_SPLIT_RE = (?<=[.!?])\s+ : the
\* pieces of a from position start on, i the scanning position
RECURSIVE SentenceSplit(_, _, _)
SentenceSplit(a, start, i) ==
    IF i > Len(a) THEN <<SubSeq(a, start, Len(a))>>
    ELSE IF IsSpace(Char(a, i)) /\ i > 1 /\ Char(a, i - 1) \in {".", "!", "?"}
         THEN LET j == SpaceRunEnd(a, i) IN <<SubSeq(a, start, i - 1)>> \o SentenceSplit(a, j, j)
         ELSE SentenceSplit(a, start, i + 1)

\* a.splitlines()
RECURSIVE splitlines(_, _, _)
splitlines(a, start, i) ==
    IF i > Len(a) THEN (IF start > Len(a) THEN <<>> ELSE <<SubSeq(a, start, Len(a))>>)
    ELSE IF Char(a, i) = "\n" THEN <<SubSeq(a, start, i - 1)>> \o splitlines(a, i + 1, i + 1)
         ELSE splitlines(a, start, i + 1)

\* [x.strip() for x in pieces if x.strip()]
RECURSIVE StripNonEmpty(_)
StripNonEmpty(pieces) == IF pieces = <<>> THEN <<>> ELSE (IF strip(Head(pieces)) # "" THEN <<strip(Head(pieces))>> ELSE <<>>) \o StripNonEmpty(Tail(pieces))

ReplaceLast(merged, x) == [merged EXCEPT ![Len(merged)] = x]
Last(merged) == merged[Len(merged)]

\* lines 86-93: a citation prefix of a segment that continues with content is
\* moved back onto the previous claim; the result is <<merged, seg>>
\* the step without the move: the prefix stays on its segment
KeepCitePrefix(merged, seg) == <<merged, seg>>
MoveCitePrefix(merged, seg) ==
    IF merged # <<>>
    THEN LET e == CitePrefixEnd(seg)
             prefix == strip(Upto(seg, e))
             rest == strip(From(seg, e))
         IN  IF e # 0 /\ prefix # "" /\ rest # "" THEN <<ReplaceLast(merged, strip(Last(merged) \o " " \o prefix)), rest>> ELSE <<merged, seg>>
    ELSE <<merged, seg>>

\* lines 95-97: the segment holds citation markers and nothing else
cites_only(seg) == RemoveChars(CiteSubFrom(seg, 1), StripClassChars) = "" /\ CiteSearch(seg)

\* the loop of lines 83-101 over the raw segments
RECURSIVE MergeSegments(_, _)
MergeSegments(raw, merged) ==
    IF raw = <<>> THEN merged
    ELSE LET moved == MoveCitePrefix(merged, Head(raw))
             m == moved[1]
             seg == moved[2]
         IN  IF cites_only(seg) /\ m # <<>>
             THEN MergeSegments(Tail(raw), ReplaceLast(m, strip(Last(m) \o " " \o seg)))
             ELSE MergeSegments(Tail(raw), Append(m, seg))

\* lines 75-78: the raw segments of the stripped answer a
RawSegments(a, mode) == IF mode = "lines" THEN StripNonEmpty(splitlines(a, 1, 1)) ELSE StripNonEmpty(SentenceSplit(a, 1, 1))

\* the merged claims without the cap of line 103
SplitWithoutCap(answer, mode, max_claims) ==
    LET a == strip(answer) IN
    IF a = "" THEN <<>> ELSE MergeSegments(RawSegments(a, mode), <<>>)
_split_claims(answer, mode, max_claims) ==
    LET a == strip(answer) IN
    IF a = "" THEN <<>>
    ELSE LET merged == MergeSegments(RawSegments(a, mode), <<>>)
         IN  SubSeq(merged, 1, Min(Len(merged), Max(1, max_claims)))

\* int(c) for a string of digits, and str(n)
RECURSIVE StrToInt(_, _)
StrToInt(s, acc) == IF s = "" THEN acc ELSE StrToInt(Tail(s), 10 * acc + (IndexIn(Head(s), Digits) - 1))
RECURSIVE IntToStr(_)
IntToStr(n) == IF n < 10 THEN Char(Digits, n + 1) ELSE IntToStr(n \div 10) \o Char(Digits, (n % 10) + 1)

\* lines 109-128: the known id one raw citation token resolves to
\* every token kept as it is
MapCiteToItself(c, known) == c
MapCite(c, known) ==
    IF c \in known THEN c
    ELSE IF isdigit(c) /\ ("S" \o IntToStr(StrToInt(c, 0))) \in known THEN "S" \o IntToStr(StrToInt(c, 0))
    ELSE IF isdigit(c) /\ StrToInt(c, 0) > 0 /\ ("S" \o IntToStr(StrToInt(c, 0) - 1)) \in known THEN "S" \o IntToStr(StrToInt(c, 0) - 1)
    ELSE IF startswith(c, "S") /\ isdigit(From(c, 1)) /\ From(c, 1) \in known THEN From(c, 1)
    ELSE c

SeqToSet(q) == {q[i] : i \in 1..Len(q)}
\* lines 130-136: duplicates dropped, first occurrence kept
\* the mapped list returned as it is
KeepDuplicates(mapped, out) == mapped
RECURSIVE Dedup(_, _)
Dedup(mapped, out) == IF mapped = <<>> THEN out ELSE Dedup(Tail(mapped), IF Head(mapped) \in SeqToSet(out) THEN out ELSE Append(out, Head(mapped)))

_map_cites_to_known_ids(cites, known) == Dedup([i \in 1..Len(cites) |-> MapCite(cites[i], known)], <<>>)

\* lines 216-220 of run_detect_hallucination: one Step per claim
StepsOfClaims(claims, known_ids, default_target) ==
    [i \in 1..Len(claims) |-> [idx |-> i - 1, claim |-> claims[i], cites |-> _map_cites_to_known_ids(_extract_cites(claims[i]), known_ids), confidence |-> default_target]]

(***************************************************************************)
(* Prompt builder (trace_budget.py).  A span is [sid, text].               *)
(***************************************************************************)
\* re.sub(r"\s+", " ", t): every run of white space becomes one blank
RECURSIVE CollapseSpaces(_, _)
CollapseSpaces(t, i) ==
    IF i > Len(t) THEN ""
    ELSE IF IsSpace(Char(t, i)) THEN " " \o CollapseSpaces(t, SpaceRunEnd(t, i))
    ELSE Char(t, i) \o CollapseSpaces(t, i + 1)

\* t.count(" ")
CountBlanks(t) == Cardinality({i \in 1..Len(t) : Char(t, i) = " "})

\* ^(w1|w2|...)\b matched against lo: one of the words starts lo and a word
\* boundary follows it
MatchesWordPrefix(lo, words) == \E w \in words : startswith(lo, w) /\ (Len(lo) = Len(w) \/ ~IsWord(Char(lo, Len(w) + 1)))

_WH_Q_RE == {"who", "what", "which", "when", "where", "why", "how"}
_AUX_Q_RE == {"is", "are", "was", "were", "do", "does", "did", "can", "could", "should", "would", "will", "may", "might", "have", "has", "had"}
QuestionLabels == {"question:", "q:", "prompt:", "task:"}
InstructionLabels == {"reply with", "respond with", "choose", "select", "options:", "answers:", "a)", "b)", "c)", "d)", "(a)", "(b)", "(c)", "(d)"}

_span_kind(text) ==
    LET t == CollapseSpaces(strip(text), 1)
        lo == lower(t)
    IN  IF t = "" THEN "EMPTY"
        ELSE IF \E l \in QuestionLabels : startswith(lo, l) THEN "QUESTION"
        ELSE IF \E l \in InstructionLabels : startswith(lo, l) THEN "INSTRUCTION"
        ELSE IF endswith(t, "?") THEN "QUESTION"
        ELSE IF MatchesWordPrefix(lo, _WH_Q_RE) THEN "QUESTION"
        ELSE IF MatchesWordPrefix(lo, _AUX_Q_RE) /\ (Contains(t, "?") \/ CountBlanks(t) < 12) THEN "QUESTION"
        ELSE "ASSERTION"

\* the text shown for a span: lines 75-79 of _spans_block
Shown(text, mask_nonassertive) ==
    IF mask_nonassertive /\ _span_kind(text) \in {"QUESTION", "INSTRUCTION", "EMPTY"}
    THEN "[NON-EVIDENCE:" \o _span_kind(text) \o "]"
    ELSE text

\* one line of the context block (line 80)
SpanLine(sp, mask_nonassertive) == "[" \o sp.sid \o "] " \o Shown(sp.text, mask_nonassertive)

\* "\n".join(lines)
RECURSIVE JoinLines(_)
JoinLines(lines) == IF lines = <<>> THEN "" ELSE IF Len(lines) = 1 THEN lines[1] ELSE lines[1] \o "\n" \o JoinLines(Tail(lines))

_spans_block(spans, mask_nonassertive) == strip(JoinLines([i \in 1..Len(spans) |-> SpanLine(spans[i], mask_nonassertive)]))

\* scrub_spans_by_id that redacts nothing
ScrubNothing(spans, cites, placeholder) == spans
scrub_spans_by_id(spans, cites, placeholder) ==
    [i \in 1..Len(spans) |-> IF spans[i].sid \in SeqToSet(cites) THEN [sid |-> spans[i].sid, text |-> placeholder] ELSE [sid |-> spans[i].sid, text |-> spans[i].text]]

\* a scoring call that writes the redacted spans back into the trace
TraceScrubbedInPlace(trace, placeholder) ==
    [steps |-> trace.steps, spans |-> scrub_spans_by_id(trace.spans, [i \in 1..Len(trace.spans) |-> trace.spans[i].sid], placeholder)]
\* the Trace object once score_trace_budget returned: steps and spans are
\* copied on entry and scrub_spans_by_id builds new Span objects
TraceAfterScoring(trace, placeholder) == trace

\* [s for s in spans if s.sid in cset]
RECURSIVE SpansWithSid(_, _)
SpansWithSid(spans, cset) == IF spans = <<>> THEN <<>> ELSE (IF Head(spans).sid \in cset THEN <<Head(spans)>> ELSE <<>>) \o SpansWithSid(Tail(spans), cset)

\* the normalized mode of line 104
ModeKey(mode) == lower(strip(IF mode = "" THEN "all" ELSE mode))
CitedModes == {"cited", "cite", "citations", "cites"}

Return(v) == [raised |-> None, value |-> v]

\* _select_context_spans with every span kept in the cited mode
SelectAllSpans(spans, cites, mode) == Return(spans)
\* the list of spans returned, or the ValueError of line 115
_select_context_spans(spans, cites, mode) ==
    LET m == ModeKey(mode) IN
    IF m \in {"all", "full"} THEN Return(spans)
    ELSE IF m = "auto" THEN (IF cites # <<>> THEN Return(SpansWithSid(spans, SeqToSet(cites))) ELSE Return(spans))
    ELSE IF m \in CitedModes THEN Return(SpansWithSid(spans, SeqToSet(cites)))
    ELSE Raise("Unknown context_mode")

\* the template of build_yes_prompt around {ctx} and {claim.strip()}
PromptHead == "\nYou are a **strict textual entailment** verifier.\n\nDefinitions:\n- Only **declarative assertions** in the CONTEXT can entail facts.\n- **Questions, prompts, headings, and instructions do NOT assert facts** and do NOT entail their presuppositions.\n- Do **not** use world knowledge or plausibility; judge only whether the CLAIM follows from the asserted text.\n\nDecision rule:\n- Reply YES only if the CLAIM is explicitly stated or logically implied by at least one ASSERTION span.\n- Reply NO only if the CONTEXT explicitly contradicts the CLAIM.\n- Otherwise reply UNSURE (including when the CONTEXT contains only questions/instructions).\n\nCONTEXT SPANS:\n"
PromptMid == "\n\nCLAIM:\n"
PromptTail == "\n\nQuestion: Is the CLAIM entailed by the CONTEXT?\n\nReply with EXACTLY one of these tokens (no punctuation, no extra text):\nYES\nNO\nUNSURE\n"

build_yes_prompt(spans, claim) == strip(PromptHead \o _spans_block(spans, TRUE) \o PromptMid \o strip(claim) \o PromptTail)

\* lines 291-299 of score_trace_budget (and 168-177 of
\* build_trace_budget_prompts): the two prompts of one step, or the ValueError
\* (below, first, the pair whose prior prompt redacts every span of the
\* context, cited or not)
StepPromptsScrubAll(spans, claim, cites, placeholder, context_mode) ==
    LET selected == _select_context_spans(spans, cites, context_mode) IN
    IF Raised(selected) THEN selected
    ELSE LET ctx_spans == selected.value
             null_spans == scrub_spans_by_id(ctx_spans, [i \in 1..Len(ctx_spans) |-> ctx_spans[i].sid], placeholder)
         IN  [raised |-> None, post_prompt |-> build_yes_prompt(ctx_spans, claim), prior_prompt |-> build_yes_prompt(null_spans, claim)]
StepPrompts(spans, claim, cites, placeholder, context_mode) ==
    LET selected == _select_context_spans(spans, cites, context_mode) IN
    IF Raised(selected) THEN selected
    ELSE LET ctx_spans == selected.value
             null_spans == IF cites # <<>> THEN scrub_spans_by_id(ctx_spans, cites, placeholder)
                           ELSE scrub_spans_by_id(ctx_spans, [i \in 1..Len(ctx_spans) |-> ctx_spans[i].sid], placeholder)
         IN  [raised |-> None, post_prompt |-> build_yes_prompt(ctx_spans, claim), prior_prompt |-> build_yes_prompt(null_spans, claim)]

(***************************************************************************)
(* State                                                                   *)
(***************************************************************************)
VARIABLES
    b_target,         \* budget test: the claim's target confidence
    b_prior,          \* budget test: logprobs of the prior (evidence redacted) completion
    b_post,           \* budget test: logprobs of the posterior completion
    b_result,         \* budget test: Optional BudgetResult of the last scoring
    b_prev,           \* budget test: Optional BudgetResult scored before the prior completion was exchanged
    s_answer,         \* normalizer: the free-text answer
    s_parts,          \* normalizer: the <<sentence, marker id>> pairs the answer was written from
    s_mode,           \* normalizer: claim_split
    s_max_claims,     \* normalizer: max_claims
    s_known,          \* normalizer: the sids of the span pool
    s_claims,         \* normalizer: Optional result of _split_claims
    s_steps,          \* normalizer: Optional list of Steps built from the claims
    p_spans,          \* prompt builder: the span pool of the trace
    p_claim,          \* prompt builder: the claim text of the step
    p_cites,          \* prompt builder: the citations of the step
    p_mode,           \* prompt builder: context_mode
    p_ctx,            \* prompt builder: Optional ctx_spans, the context selected for the step (or the exception)
    p_out,            \* prompt builder: Optional prompts of the step (or the exception)
    r_entry,          \* entry point: "detect" or "audit"
    r_req,            \* entry point: the request (answer or steps, spans, require_citations)
    r_pc,             \* entry point: position of the call
    r_trace,          \* entry point: Optional Trace(steps, spans)
    r_prompts,        \* entry point: post_prompts and prior_prompts, one pair per step
    r_post_results,   \* entry point: TextResults of the posterior batch
    r_prior_results,  \* entry point: TextResults of the prior batch
    r_out,            \* entry point: Optional outcome, the returned dict or the exception
    c_cites,          \* citation reconciliation: the raw citation tokens of a claim
    c_known,          \* citation reconciliation: the sids of the span pool
    c_out,            \* citation reconciliation: Optional result of _map_cites_to_known_ids
    t_api,            \* batches: what the API does for each prompt, [post, prior] lists of behaviours
    t_workers,        \* batches: max_workers of the thread pools
    t_pc,             \* batches: position of the thread that runs score_trace_budget
    t_futs,           \* batches: the futures of the two executors, [post, prior] lists of [status, result]
    t_order,          \* batches: the indices of the futures of the current executor, in the order they completed
    t_got,            \* batches: the results the list comprehension has taken so far
    t_exc,            \* batches: Optional exception raised inside the with block
    t_resets,         \* batches: number of calls of backend.reset_state()
    t_results,        \* batches: post_results and prior_results, each Optional
    t_out,            \* batches: Optional outcome of score_trace_budget
    k_retries,        \* one call: the retries argument of call_text_chat
    k_backoff,        \* one call: retry_backoff_s, in tenths of a second
    k_pc,             \* one call: position in the retry loop
    k_attempt,        \* one call: the loop variable attempt
    k_log,            \* one call: the outcome of each request issued so far
    k_waits,          \* one call: the arguments of time.sleep so far, in tenths of a second
    k_last_err,       \* one call: last_err, Optional
    k_out,            \* one call: Optional outcome of call_text_chat
    e_logprobs,       \* estimator: the logprobs of one completion, Optional
    e_out,            \* estimator: Optional outcome of yesprob_from_logprobs
    x_logprobs,       \* extractor: the logprobs of one completion, Optional
    x_out,            \* extractor: Optional outcome of extract_answer_topk
    w_entry,          \* service wrapper: "detect" or "audit"
    w_key,            \* service wrapper: OPENAI_API_KEY of the environment
    w_reply,          \* service wrapper: what the service does with the request, Optional
    w_pc,             \* service wrapper: position of the call
    w_sent,           \* service wrapper: number of requests posted
    w_out,            \* service wrapper: Optional outcome, the returned dict or the exception
    d_trace,          \* repeated scoring: the Trace both calls receive
    d_mode,           \* repeated scoring: context_mode
    d_kind,           \* repeated scoring: BackendConfig.kind
    d_outs            \* repeated scoring: the outcomes of the calls made so far

varsBudget == <<b_target, b_prior, b_post, b_result, b_prev>>
varsSplit == <<s_answer, s_parts, s_mode, s_max_claims, s_known, s_claims, s_steps>>
varsPrompt == <<p_spans, p_claim, p_cites, p_mode, p_ctx, p_out>>
varsRun == <<r_entry, r_req, r_pc, r_trace, r_prompts, r_post_results, r_prior_results, r_out>>
varsCites == <<c_cites, c_known, c_out>>
varsBatch == <<t_api, t_workers, t_pc, t_futs, t_order, t_got, t_exc, t_resets, t_results, t_out>>
varsCall == <<k_retries, k_backoff, k_pc, k_attempt, k_log, k_waits, k_last_err, k_out>>
varsEstimate == <<e_logprobs, e_out>>
varsExtract == <<x_logprobs, x_out>>
varsK8s == <<w_entry, w_key, w_reply, w_pc, w_sent, w_out>>
varsTwice == <<d_trace, d_mode, d_kind, d_outs>>
vars == <<varsBudget, varsSplit, varsPrompt, varsRun, varsCites, varsBatch, varsCall, varsEstimate, varsExtract, varsK8s, varsTwice>>

\* the variables of a component that is not running
IdleBudget == b_target = 0 /\ b_prior = None /\ b_post = None /\ b_result = None /\ b_prev = None
IdleSplit == s_answer = "" /\ s_parts = <<>> /\ s_mode = "" /\ s_max_claims = 0 /\ s_known = {} /\ s_claims = None /\ s_steps = None
IdlePrompt == p_spans = <<>> /\ p_claim = "" /\ p_cites = <<>> /\ p_mode = "" /\ p_ctx = None /\ p_out = None
IdleRun == r_entry = "" /\ r_req = None /\ r_pc = "idle" /\ r_trace = None /\ r_prompts = <<>> /\ r_post_results = <<>> /\ r_prior_results = <<>> /\ r_out = None
IdleCites == c_cites = <<>> /\ c_known = {} /\ c_out = None
IdleBatch == t_api = None /\ t_workers = 0 /\ t_pc = "idle" /\ t_futs = None /\ t_order = <<>> /\ t_got = <<>> /\ t_exc = None /\ t_resets = 0 /\ t_results = None /\ t_out = None
IdleCall == k_retries = 0 /\ k_backoff = 0 /\ k_pc = "idle" /\ k_attempt = 0 /\ k_log = <<>> /\ k_waits = <<>> /\ k_last_err = None /\ k_out = None
IdleEstimate == e_logprobs = None /\ e_out = None
IdleExtract == x_logprobs = None /\ x_out = None
IdleK8s == w_entry = "" /\ w_key = "" /\ w_reply = None /\ w_pc = "idle" /\ w_sent = 0 /\ w_out = None
IdleTwice == d_trace = <<>> /\ d_mode = "" /\ d_kind = "" /\ d_outs = <<>>
\* everything but one component
restBudget == <<varsSplit, varsPrompt, varsRun, varsCites, varsBatch, varsCall, varsEstimate, varsExtract, varsK8s, varsTwice>>
restSplit == <<varsBudget, varsPrompt, varsRun, varsCites, varsBatch, varsCall, varsEstimate, varsExtract, varsK8s, varsTwice>>
restPrompt == <<varsBudget, varsSplit, varsRun, varsCites, varsBatch, varsCall, varsEstimate, varsExtract, varsK8s, varsTwice>>
restRun == <<varsBudget, varsSplit, varsPrompt, varsCites, varsBatch, varsCall, varsEstimate, varsExtract, varsK8s, varsTwice>>
restCites == <<varsBudget, varsSplit, varsPrompt, varsRun, varsBatch, varsCall, varsEstimate, varsExtract, varsK8s, varsTwice>>
restBatch == <<varsBudget, varsSplit, varsPrompt, varsRun, varsCites, varsCall, varsEstimate, varsExtract, varsK8s, varsTwice>>
restCall == <<varsBudget, varsSplit, varsPrompt, varsRun, varsCites, varsBatch, varsEstimate, varsExtract, varsK8s, varsTwice>>
restEstimate == <<varsBudget, varsSplit, varsPrompt, varsRun, varsCites, varsBatch, varsCall, varsExtract, varsK8s, varsTwice>>
restExtract == <<varsBudget, varsSplit, varsPrompt, varsRun, varsCites, varsBatch, varsCall, varsEstimate, varsK8s, varsTwice>>
restK8s == <<varsBudget, varsSplit, varsPrompt, varsRun, varsCites, varsBatch, varsCall, varsEstimate, varsExtract, varsTwice>>
restTwice == <<varsBudget, varsSplit, varsPrompt, varsRun, varsCites, varsBatch, varsCall, varsEstimate, varsExtract, varsK8s>>
IdleButBudget == IdleSplit /\ IdlePrompt /\ IdleRun /\ IdleCites /\ IdleBatch /\ IdleCall /\ IdleEstimate /\ IdleExtract /\ IdleK8s /\ IdleTwice
IdleButSplit == IdleBudget /\ IdlePrompt /\ IdleRun /\ IdleCites /\ IdleBatch /\ IdleCall /\ IdleEstimate /\ IdleExtract /\ IdleK8s /\ IdleTwice
IdleButPrompt == IdleBudget /\ IdleSplit /\ IdleRun /\ IdleCites /\ IdleBatch /\ IdleCall /\ IdleEstimate /\ IdleExtract /\ IdleK8s /\ IdleTwice
IdleButRun == IdleBudget /\ IdleSplit /\ IdlePrompt /\ IdleCites /\ IdleBatch /\ IdleCall /\ IdleEstimate /\ IdleExtract /\ IdleK8s /\ IdleTwice
IdleButCites == IdleBudget /\ IdleSplit /\ IdlePrompt /\ IdleRun /\ IdleBatch /\ IdleCall /\ IdleEstimate /\ IdleExtract /\ IdleK8s /\ IdleTwice
IdleButBatch == IdleBudget /\ IdleSplit /\ IdlePrompt /\ IdleRun /\ IdleCites /\ IdleCall /\ IdleEstimate /\ IdleExtract /\ IdleK8s /\ IdleTwice
IdleButCall == IdleBudget /\ IdleSplit /\ IdlePrompt /\ IdleRun /\ IdleCites /\ IdleBatch /\ IdleEstimate /\ IdleExtract /\ IdleK8s /\ IdleTwice
IdleButEstimate == IdleBudget /\ IdleSplit /\ IdlePrompt /\ IdleRun /\ IdleCites /\ IdleBatch /\ IdleCall /\ IdleExtract /\ IdleK8s /\ IdleTwice
IdleButExtract == IdleBudget /\ IdleSplit /\ IdlePrompt /\ IdleRun /\ IdleCites /\ IdleBatch /\ IdleCall /\ IdleEstimate /\ IdleK8s /\ IdleTwice
IdleButK8s == IdleBudget /\ IdleSplit /\ IdlePrompt /\ IdleRun /\ IdleCites /\ IdleBatch /\ IdleCall /\ IdleEstimate /\ IdleExtract /\ IdleTwice
IdleButTwice == IdleBudget /\ IdleSplit /\ IdlePrompt /\ IdleRun /\ IdleCites /\ IdleBatch /\ IdleCall /\ IdleEstimate /\ IdleExtract /\ IdleK8s

(***************************************************************************)
(* The budget test on one claim: score_trace_budget's scoring loop body    *)
(***************************************************************************)
\* one BudgetResult of the loop at the end of score_trace_budget, or the
\* exception of yesprob_from_logprobs
ScoreClaim(idx, claim, cites, target, post_logprobs, prior_logprobs) ==
    LET post_yes == yesprob_from_logprobs(post_logprobs) IN
    IF Raised(post_yes) THEN post_yes
    ELSE LET prior_yes == yesprob_from_logprobs(prior_logprobs) IN
         IF Raised(prior_yes) THEN prior_yes
         ELSE LET b == _budget_from_intervals(target, prior_yes.p_yes_lower, prior_yes.p_yes_upper, post_yes.p_yes_lower, post_yes.p_yes_upper)
              IN  [raised |-> None, idx |-> idx, claim |-> claim, cites |-> cites, target |-> target,
                   prior_yes |-> prior_yes, post_yes |-> post_yes,
                   required_bits_min |-> b.req_min, required_bits_max |-> b.req_max,
                   observed_bits_min |-> b.obs_min, observed_bits_max |-> b.obs_max,
                   budget_gap_min |-> b.gap_min, budget_gap_max |-> b.gap_max,
                   flagged |-> b.flagged]

\* targets in (0,1)
Targets == {Prob(i) : i \in 1..(Grid - 1)}
\* one-token completions: the answer token with at most one alternative
Alt(tok, lp) == [token |-> tok, logprob |-> Some(lp)]
OneTokenCompletion(tok, lp, top) == Some(<<[token |-> tok, logprob |-> Some(lp), top_logprobs |-> top]>>)
BudgetCompletions ==
    {OneTokenCompletion("NO", 0, <<>>)}
    \cup {OneTokenCompletion(tok, lp, <<Alt(tok, lp)>>) : tok \in {"YES", "NO"}, lp \in LogProbs}

InitBudget ==
    /\ b_target \in Targets
    /\ b_prior \in BudgetCompletions
    /\ b_post \in BudgetCompletions
    /\ b_result = None
    /\ b_prev = None
    /\ IdleButBudget

\* the scoring of the claim from its two completions
Score ==
    /\ IsNone(b_result)
    /\ b_result' = Some(ScoreClaim(0, "claim", <<>>, b_target, b_post, b_prior))
    /\ UNCHANGED <<b_target, b_prior, b_post, b_prev, restBudget>>

\* The same claim scored again after the prior completion, which showed no
\* YES alternative (prior interval [0, upper]), is exchanged for one that
\* shows YES with probability p <= upper; target and posterior are kept.
RescoreWithYesPresent(lp) ==
    /\ ~IsNone(b_result)
    /\ IsNone(b_prev)
    /\ Val(b_result).prior_yes.p_yes_lower = 0
    /\ exp(lp) <= Val(b_result).prior_yes.p_yes_upper
    /\ b_prior' = OneTokenCompletion("YES", lp, <<Alt("YES", lp)>>)
    /\ b_prev' = b_result
    /\ b_result' = Some(ScoreClaim(0, "claim", <<>>, b_target, b_post, b_prior'))
    /\ UNCHANGED <<b_target, b_post, restBudget>>

NextBudget == Score \/ \E lp \in LogProbs : RescoreWithYesPresent(lp)

SpecBudget == InitBudget /\ [][NextBudget]_vars

\* C1: a scored claim is flagged exactly when required_min > observed_max,
\* strictly: with required_min = observed_max it is not flagged.
C1_FlagIffStrictlyUnderBudget ==
    ~IsNone(b_result) => (Val(b_result).flagged <=> Val(b_result).required_bits_min > Val(b_result).observed_bits_max)

\* C1 witness: a scored claim with required_min = observed_max, not flagged.
C1_Witness ==
    /\ ~IsNone(b_result)
    /\ Val(b_result).required_bits_min = Val(b_result).observed_bits_max
    /\ ~Val(b_result).flagged

\* C5: every budget result has required_min <= required_max and
\* observed_min <= observed_max.
C5_IntervalsOrdered ==
    ~IsNone(b_result) =>
        /\ Val(b_result).required_bits_min <= Val(b_result).required_bits_max
        /\ Val(b_result).observed_bits_min <= Val(b_result).observed_bits_max

\* C6: a claim unflagged with the prior interval [0, upper] is still unflagged
\* when the prior becomes a point estimate p within [0, upper].
C6_YesPresentNeverFlags ==
    (~IsNone(b_prev) /\ ~Val(b_prev).flagged) => ~Val(b_result).flagged

(***************************************************************************)
(* The free-text normalizer on one answer                                  *)
(***************************************************************************)
\* default_target = 0.95 and max_claims = 25 of run_detect_hallucination
DefaultTarget == Prob(19)
DefaultMaxClaims == 25

\* free-form answers: at most MaxPieces pieces written one after the other
MaxPieces == 5
SplitPieces == {"Fact.", "yes", "[S0]", "[1]", " ", "\n", "."}
RECURSIVE AnswersOf(_)
AnswersOf(n) == IF n = 0 THEN {""} ELSE LET prev == AnswersOf(n - 1) IN prev \cup {a \o pc : a \in prev, pc \in SplitPieces}

InitSplit ==
    /\ s_answer \in AnswersOf(MaxPieces)
    /\ s_parts = <<>>
    /\ s_mode \in {"sentences", "lines"}
    /\ s_max_claims = DefaultMaxClaims
    /\ s_known = {"S0", "S1"}
    /\ s_claims = None
    /\ s_steps = None
    /\ IdleButSplit

\* answers of n sentences, each followed by one citation marker
MaxSentences == 3
MergeSentences == {"Fact one.", "is it so?"}
MergeMarkers == {"S0", "S1", "2"}
MergeSeparators == {" ", "\n"}
RECURSIVE RenderParts(_, _)
RenderParts(parts, sep) ==
    IF parts = <<>> THEN ""
    ELSE Head(parts)[1] \o sep \o "[" \o Head(parts)[2] \o "]" \o (IF Len(parts) > 1 THEN sep ELSE "") \o RenderParts(Tail(parts), sep)

InitMerge ==
    /\ s_parts \in UNION {[1..n -> MergeSentences \X MergeMarkers] : n \in 1..MaxSentences}
    /\ \E sep \in MergeSeparators : s_answer = RenderParts(s_parts, sep)
    /\ s_mode = "sentences"
    /\ s_max_claims \in {Len(s_parts), DefaultMaxClaims}
    /\ s_known = {"S0", "S1"}
    /\ s_claims = None
    /\ s_steps = None
    /\ IdleButSplit

\* line 214: claims = _split_claims(answer, mode=claim_split, max_claims=max_claims)
SplitClaims ==
    /\ s_mode # ""
    /\ IsNone(s_claims)
    /\ s_claims' = Some(_split_claims(s_answer, s_mode, s_max_claims))
    /\ UNCHANGED <<s_answer, s_parts, s_mode, s_max_claims, s_known, s_steps, restSplit>>

\* lines 216-220: the Steps of the trace
BuildSteps ==
    /\ ~IsNone(s_claims)
    /\ IsNone(s_steps)
    /\ s_steps' = Some(StepsOfClaims(Val(s_claims), s_known, DefaultTarget))
    /\ UNCHANGED <<s_answer, s_parts, s_mode, s_max_claims, s_known, s_claims, restSplit>>

NextSplit == SplitClaims \/ BuildSteps

SpecSplit == InitSplit /\ [][NextSplit]_vars
SpecMerge == InitMerge /\ [][NextSplit]_vars

\* the text holds at least one citation marker and, the markers removed,
\* nothing but white space and punctuation
CitationOnly(text) == CiteSearch(text) /\ RemoveChars(CiteSubFrom(text, 1), SpacePunctChars) = ""

\* C9: no claim but the first consists solely of citation markers, white
\* space and punctuation, and the segments appended to a preceding claim are
\* exactly the citation-only ones: there are as many claims as there are raw
\* segments that are the first one or are not citation-only.
C9_CitationOnlySegmentsMerged ==
    ~IsNone(s_claims) =>
        LET raw == RawSegments(strip(s_answer), s_mode)
            claims == Val(s_claims)
        IN  /\ \A i \in 2..Len(claims) : ~CitationOnly(claims[i])
            /\ Len(claims) = Cardinality({i \in 1..Len(raw) : i = 1 \/ ~CitationOnly(raw[i])})

\* C10: an answer of n sentences, each followed by one bracketed citation
\* marker, split by sentences, yields n claims, and claim i cites exactly the
\* (reconciled) marker that follows sentence i.
C10_MarkerCitedByPrecedingClaim ==
    ~IsNone(s_steps) =>
        /\ Len(Val(s_steps)) = Len(s_parts)
        /\ \A i \in 1..Len(s_parts) :
              /\ Val(s_steps)[i].cites = _map_cites_to_known_ids(<<s_parts[i][2]>>, s_known)
              /\ Contains(Val(s_steps)[i].claim, s_parts[i][1])

\* C10 witness: two or more sentences with different markers, Steps built.
C10_Witness ==
    /\ ~IsNone(s_steps)
    /\ Len(s_parts) >= 2
    /\ s_parts[1][2] # s_parts[2][2]
    /\ Val(s_steps)[1].cites # Val(s_steps)[2].cites

(***************************************************************************)
(* The prompt builder on one step                                          *)
(***************************************************************************)
DefaultPlaceholder == "[REDACTED]"
MaxSpans == 2
SpanTexts == {"Sky is blue.", "What is blue?", "Sky", "[REDACTED]"}
\* pools of n spans with the sids S0, S1, ...
PoolsOf(n) == {[i \in 1..n |-> [sid |-> "S" \o IntToStr(i - 1), text |-> txt[i]]] : txt \in [1..n -> SpanTexts]}
PromptClaims == {"Sky is blue. [S0]", "It rains."}
PromptCites == {<<>>, <<"S0">>, <<"S1">>, <<"S1", "S0">>, <<"S9">>}
PromptModes == {"all", "full", "auto", "cited", "bogus"}

InitPrompt ==
    /\ p_spans \in UNION {PoolsOf(n) : n \in 0..MaxSpans}
    /\ p_claim \in PromptClaims
    /\ p_cites \in PromptCites
    /\ p_mode \in PromptModes
    /\ p_ctx = None
    /\ p_out = None
    /\ IdleButPrompt

\* the body of the loop of lines 281-299 for the step
BuildPrompts ==
    /\ p_mode # ""
    /\ IsNone(p_out)
    /\ p_ctx' = Some(_select_context_spans(p_spans, p_cites, p_mode))
    /\ p_out' = Some(StepPrompts(p_spans, p_claim, p_cites, DefaultPlaceholder, p_mode))
    /\ p_spans' = TraceAfterScoring([steps |-> <<>>, spans |-> p_spans], DefaultPlaceholder).spans
    /\ UNCHANGED <<p_claim, p_cites, p_mode, restPrompt>>

NextPrompt == BuildPrompts

SpecPrompt == InitPrompt /\ [][NextPrompt]_vars

PromptsBuilt == ~IsNone(p_out) /\ ~Raised(Val(p_out))
\* the positions of the pool whose span the step cites, and the others
CitedPositions == {i \in 1..Len(p_spans) : p_spans[i].sid \in SeqToSet(p_cites)}
UncitedPositions == (1..Len(p_spans)) \ CitedPositions
WithText(spans, i, txt) == [spans EXCEPT ![i].text = txt]
RemoveAt(spans, i) == SubSeq(spans, 1, i - 1) \o SubSeq(spans, i + 1, Len(spans))

\* C3 as stated: the prior prompt of a claim that cites a span S of the pool
\* never contains the text of S (claim text included).
C3_PriorNeverContainsCitedText ==
    PromptsBuilt => \A i \in CitedPositions : ~Contains(Val(p_out).prior_prompt, p_spans[i].text)

\* C3 amended: the prior prompt shows a cited span S as its sid followed by
\* the placeholder and is the same prompt whatever the text of S is.
C3_PriorIndependentOfCitedText ==
    PromptsBuilt =>
        \A i \in CitedPositions :
            /\ Contains(Val(p_out).prior_prompt, "\n[" \o p_spans[i].sid \o "] " \o DefaultPlaceholder \o "\n")
            /\ \A txt \in SpanTexts : StepPrompts(WithText(p_spans, i, txt), p_claim, p_cites, DefaultPlaceholder, p_mode).prior_prompt = Val(p_out).prior_prompt

\* C3 witness: a cited span whose text the posterior prompt shows and the
\* prior prompt does not.
C3_Witness ==
    /\ PromptsBuilt
    /\ \E i \in CitedPositions : Contains(Val(p_out).post_prompt, p_spans[i].text) /\ ~Contains(Val(p_out).prior_prompt, p_spans[i].text)

\* C4 as stated: in the cited mode the posterior prompt contains the text of
\* every cited span of the pool and the text of no uncited span.
C4_PosteriorShowsCitedTextOnly ==
    (PromptsBuilt /\ ModeKey(p_mode) = "cited" /\ CitedPositions # {}) =>
        /\ \A i \in CitedPositions : Contains(Val(p_out).post_prompt, p_spans[i].text)
        /\ \A j \in UncitedPositions : ~Contains(Val(p_out).post_prompt, p_spans[j].text)

\* C4 amended: in the cited mode the posterior prompt lists every cited span
\* of the pool, with its text verbatim when it is an ASSERTION and with the
\* NON-EVIDENCE marker of its kind otherwise, and is the prompt rendered
\* from the pool without the uncited spans.
C4_PosteriorListsCitedSpansOnly ==
    (PromptsBuilt /\ ModeKey(p_mode) = "cited" /\ CitedPositions # {}) =>
        /\ \A i \in CitedPositions :
              IF _span_kind(p_spans[i].text) = "ASSERTION"
              THEN Contains(Val(p_out).post_prompt, "\n[" \o p_spans[i].sid \o "] " \o p_spans[i].text \o "\n")
              ELSE Contains(Val(p_out).post_prompt, "\n[" \o p_spans[i].sid \o "] [NON-EVIDENCE:" \o _span_kind(p_spans[i].text) \o "]\n")
        /\ \A j \in UncitedPositions :
              /\ StepPrompts(RemoveAt(p_spans, j), p_claim, p_cites, DefaultPlaceholder, p_mode).post_prompt = Val(p_out).post_prompt
              /\ ~Contains(Val(p_out).post_prompt, "\n[" \o p_spans[j].sid \o "] ")

\* C4 witness: the cited mode, a cited ASSERTION span shown verbatim and an
\* uncited span whose text the posterior prompt does not contain.
C4_Witness ==
    /\ PromptsBuilt
    /\ ModeKey(p_mode) = "cited"
    /\ \E i \in CitedPositions : _span_kind(p_spans[i].text) = "ASSERTION" /\ Contains(Val(p_out).post_prompt, p_spans[i].text)
    /\ \E j \in UncitedPositions : ~Contains(Val(p_out).post_prompt, p_spans[j].text)

(***************************************************************************)
(* The entry points: run_detect_hallucination, run_audit_trace_budget      *)
(***************************************************************************)
Retries == 3
DefaultContextMode == "all"
\* 1/_LN2 in thousandths
Log2eMilli == 1443

\* call_text_chat against an API that fails `failures` times and then
\* answers with choice.logprobs.content = content: the TextResult, or the
\* RuntimeError once the attempts 0..retries have all failed
TokenData(token_info) ==
    [token |-> token_info.token, logprob |-> token_info.logprob,
     top_logprobs |-> [j \in 1..Len(token_info.top_logprobs) |-> [token |-> token_info.top_logprobs[j].token, logprob |-> token_info.top_logprobs[j].logprob]]]
call_text_chat(api) ==
    IF api.failures >= Retries + 1 THEN Raise("OpenAI chat call failed after retries")
    ELSE Return([logprobs |-> IF IsNone(api.content) \/ Val(api.content) = <<>> THEN None
                              ELSE Some([i \in 1..Len(Val(api.content)) |-> TokenData(Val(api.content)[i])])])

\* a loop over outcomes that stops at the first exception: that exception,
\* or all the outcomes
Gather(rs) ==
    IF \E i \in 1..Len(rs) : Raised(rs[i])
    THEN rs[CHOOSE i \in 1..Len(rs) : Raised(rs[i]) /\ \A j \in 1..(i - 1) : ~Raised(rs[j])]
    ELSE Return(rs)

\* OpenAIBackend.call_text_batch: the results in the order of the prompts,
\* or the exception of the first future that failed
Results(g) == IF Raised(g) THEN g ELSE Return([i \in 1..Len(g.value) |-> g.value[i].value])
call_text_batch(apis) == Results(Gather([i \in 1..Len(apis) |-> call_text_chat(apis[i])]))

RECURSIVE _normalize_spans(_)
_normalize_spans(spans) ==
    IF spans = <<>> THEN <<>>
    ELSE LET sid == strip(Head(spans).sid)
             text == strip(Head(spans).text)
         IN  (IF sid # "" /\ text # "" THEN <<[sid |-> sid, text |-> text]>> ELSE <<>>) \o _normalize_spans(Tail(spans))

\* out.sort(key=lambda x: x.idx): a stable sort, by insertion
RECURSIVE InsertByIdx(_, _)
InsertByIdx(sorted, st) ==
    IF sorted = <<>> THEN <<st>>
    ELSE IF Last(sorted).idx <= st.idx THEN Append(sorted, st)
    ELSE Append(InsertByIdx(SubSeq(sorted, 1, Len(sorted) - 1), st), Last(sorted))

\* the loop of _normalize_steps from the i-th raw step (1-based)
RECURSIVE NormalizeStepsFrom(_, _, _, _)
NormalizeStepsFrom(steps, i, default_target, out) ==
    IF i > Len(steps) THEN out
    ELSE LET st == steps[i]
             claim == strip(st.claim)
             conf == IF IsNone(st.confidence) \/ Val(st.confidence) = 0 THEN default_target ELSE Val(st.confidence)
             step == [idx |-> IF IsNone(st.idx) THEN i - 1 ELSE Val(st.idx), claim |-> claim, cites |-> StripNonEmpty(st.cites), confidence |-> conf]
         IN  NormalizeStepsFrom(steps, i + 1, default_target, IF claim = "" THEN out ELSE InsertByIdx(out, step))
\* the steps kept in the order of the input, without the sort of line 62
HasClaim(st) == st.claim # ""
NormalizeUnsorted(steps, default_target) ==
    SelectSeq([i \in 1..Len(steps) |-> [idx |-> IF IsNone(steps[i].idx) THEN i - 1 ELSE Val(steps[i].idx), claim |-> strip(steps[i].claim), cites |-> StripNonEmpty(steps[i].cites),
                                         confidence |-> IF IsNone(steps[i].confidence) \/ Val(steps[i].confidence) = 0 THEN default_target ELSE Val(steps[i].confidence)]], HasClaim)
_normalize_steps(steps, default_target) == NormalizeStepsFrom(steps, 1, default_target, <<>>)

\* the prompt loop of score_trace_budget: a pair of prompts per step, or the
\* ValueError of the first step whose context selection fails
TracePrompts(trace, placeholder, context_mode) ==
    Gather([i \in 1..Len(trace.steps) |-> StepPrompts(trace.spans, trace.steps[i].claim, trace.steps[i].cites, placeholder, context_mode)])

\* the scoring loop of score_trace_budget: the BudgetResults, or the
\* exception of the first step whose log-probabilities cannot be read
ScoreResults(steps, post_results, prior_results) ==
    Gather([i \in 1..Len(steps) |-> ScoreClaim(steps[i].idx, steps[i].claim, steps[i].cites, steps[i].confidence, post_results[i].logprobs, prior_results[i].logprobs)])

\* float(nats) / _LN2, in the same fixed-point unit
_to_bits(nats) == (nats \div 1000) * Log2eMilli
Interval(lo, hi, units) == [min |-> IF units = "bits" THEN _to_bits(lo) ELSE lo, max |-> IF units = "bits" THEN _to_bits(hi) ELSE hi, units |-> units]

_format_result(r, units) ==
    [idx |-> r.idx, claim |-> r.claim, cites |-> r.cites, target |-> r.target,
     prior_yes |-> [p_lower |-> r.prior_yes.p_yes_lower, p_upper |-> r.prior_yes.p_yes_upper, generated |-> r.prior_yes.generated, topk |-> r.prior_yes.topk],
     post_yes |-> [p_lower |-> r.post_yes.p_yes_lower, p_upper |-> r.post_yes.p_yes_upper, generated |-> r.post_yes.generated, topk |-> r.post_yes.topk],
     required |-> Interval(r.required_bits_min, r.required_bits_max, units),
     observed |-> Interval(r.observed_bits_min, r.observed_bits_max, units),
     budget_gap |-> Interval(r.budget_gap_min, r.budget_gap_max, units),
     flagged |-> r.flagged,
     has_any_citations |-> r.cites # <<>>,
     missing_citations |-> FALSE]

\* the dict of lines 341-358 of run_audit_trace_budget
AuditDetail(r, units) ==
    [idx |-> r.idx, claim |-> r.claim, cites |-> r.cites, flagged |-> r.flagged,
     required |-> Interval(r.required_bits_min, r.required_bits_max, units),
     observed |-> Interval(r.observed_bits_min, r.observed_bits_max, units),
     budget_gap |-> Interval(r.budget_gap_min, r.budget_gap_max, units)]

\* d["missing_citations"] = True; d["flagged"] = True
SetMissingOnly(d) == [k \in DOMAIN d \cup {"missing_citations"} |-> IF k = "missing_citations" THEN TRUE ELSE d[k]]
SetMissingAndFlagged(d) == [k \in DOMAIN d \cup {"missing_citations", "flagged"} |-> IF k \in {"missing_citations", "flagged"} THEN TRUE ELSE d[k]]

\* the marker set and the verdict of the KL test left as it is
MarkMissingOnly(details) == [i \in 1..Len(details) |-> IF ~details[i].has_any_citations THEN SetMissingOnly(details[i]) ELSE details[i]]
\* lines 248-252 of run_detect_hallucination
RequireCitationsDetect(details) == [i \in 1..Len(details) |-> IF ~details[i].has_any_citations THEN SetMissingAndFlagged(details[i]) ELSE details[i]]
\* lines 360-364 of run_audit_trace_budget
RequireCitationsAudit(out) == [i \in 1..Len(out) |-> IF out[i].cites = <<>> THEN SetMissingAndFlagged(out[i]) ELSE out[i]]

\* a count that takes every detail for a flagged one
CountEveryDetail(details) == Len(details)
FlaggedCount(details) == Cardinality({i \in 1..Len(details) : details[i].flagged})
ErrorResult(msg) == [flagged |-> TRUE, under_budget |-> TRUE, error |-> msg, details |-> <<>>]
\* the dict the entry point returns after scoring
DetectResult(details) ==
    [flagged |-> \E i \in 1..Len(details) : details[i].flagged,
     under_budget |-> \E i \in 1..Len(details) : details[i].flagged,
     summary |-> [claims_scored |-> Len(details), flagged_claims |-> FlaggedCount(details)],
     details |-> details]
AuditResult(out) ==
    [flagged |-> \E i \in 1..Len(out) : out[i].flagged,
     under_budget |-> \E i \in 1..Len(out) : out[i].flagged,
     summary |-> [steps_scored |-> Len(out), flagged_steps |-> FlaggedCount(out)],
     details |-> out]

DefaultUnits == "bits"
MaxSteps == 2
\* requests: span pools as the caller sends them, answers and raw steps
RunPools == {<<[sid |-> "S0", text |-> " "]>>, <<[sid |-> " S0", text |-> "Sky is blue. "]>>}
\* answers of 0, 1, 2, ... claims
RunAnswers == <<"", "Sky is blue. [S0]", "Sky is blue. [S0] It rains.", "It rains. Sky is blue. [S0] [S9] Really.">>
RawStep(claim, cites, idx, confidence) == [claim |-> claim, cites |-> cites, idx |-> idx, confidence |-> confidence]
CitedStep == RawStep("Sky is blue. ", <<" S0", " ">>, None, None)
UncitedStep == RawStep("It rains.", <<>>, Some(0), Some(Prob(10)))
RunStepLists == {<<>>, <<RawStep(" ", <<"S0">>, None, None)>>, <<CitedStep>>, <<UncitedStep>>, <<CitedStep, UncitedStep>>, <<UncitedStep, CitedStep, UncitedStep>>,
                 <<RawStep("It rains.", <<>>, Some(5), None), RawStep("Sky is blue.", <<"S0">>, Some(2), None)>>}
RunModes == {DefaultContextMode, "bogus"}
DetectRequests == {[answer |-> RunAnswers[n + 1], spans |-> sp, require_citations |-> rc, context_mode |-> cm] : n \in 0..MaxSteps, sp \in RunPools, rc \in BOOLEAN, cm \in RunModes}
AuditRequests == {[steps |-> st, spans |-> sp, require_citations |-> rc, context_mode |-> cm] : st \in {x \in RunStepLists : Len(x) <= MaxSteps}, sp \in RunPools, rc \in BOOLEAN, cm \in RunModes}

\* what the API does on one call: the number of failed attempts and the
\* content of choice.logprobs of the attempt that answers
NoLogprobToken == [token |-> "YES", logprob |-> None, top_logprobs |-> <<>>]
YesToken(gen, lp) == [token |-> gen, logprob |-> Some(lp), top_logprobs |-> <<Alt("YES", lp), Alt(" no", LogTable[1])>>]
ApiContents == {None, Some(<<>>), Some(<<NoLogprobToken>>), Some(<<YesToken("YES", LogTable[19])>>), Some(<<[token |-> " ", logprob |-> Some(0), top_logprobs |-> <<>>], YesToken("NO", LogTable[2])>>)}
ApiBehaviours == {[failures |-> f, content |-> c] : f \in {0, Retries}, c \in ApiContents} \cup {[failures |-> Retries + 1, content |-> None]}

InitRun ==
    /\ r_entry \in {"detect", "audit"}
    /\ r_req \in IF r_entry = "detect" THEN DetectRequests ELSE AuditRequests
    /\ r_pc = "start"
    /\ r_trace = None
    /\ r_prompts = <<>>
    /\ r_post_results = <<>>
    /\ r_prior_results = <<>>
    /\ r_out = None
    /\ IdleButRun

\* score_trace_budget up to its first batch call, for the trace the entry
\* point built: no steps gives [] and the entry point returns at once
StartScoring(trace, ps, empty_result) ==
    /\ r_trace' = Some(trace)
    /\ IF trace.steps = <<>> THEN r_pc' = "done" /\ r_out' = Some(Return(empty_result)) /\ r_prompts' = <<>>
       ELSE IF Raised(ps) THEN r_pc' = "done" /\ r_out' = Some(ps) /\ r_prompts' = <<>>
       ELSE r_pc' = "post" /\ r_out' = None /\ r_prompts' = ps.value

\* lines 212-222 of run_detect_hallucination: the Trace of the answer
DetectTrace(answer, span_objs) ==
    [steps |-> StepsOfClaims(_split_claims(answer, "sentences", DefaultMaxClaims), {span_objs[i].sid : i \in 1..Len(span_objs)}, DefaultTarget),
     spans |-> span_objs]

\* lines 199-201 and 224-244 of run_detect_hallucination
StartDetect(trace, context_mode) ==
    IF trace.spans = <<>>
    THEN r_pc' = "done" /\ r_out' = Some(Return(ErrorResult("No spans provided (cannot verify citations)."))) /\ UNCHANGED <<r_trace, r_prompts>>
    ELSE StartScoring(trace, TracePrompts(trace, DefaultPlaceholder, context_mode), DetectResult(<<>>))

\* run_detect_hallucination, lines 199-232
BeginDetect ==
    /\ r_pc = "start"
    /\ r_entry = "detect"
    /\ StartDetect(DetectTrace(r_req.answer, _normalize_spans(r_req.spans)), r_req.context_mode)
    /\ UNCHANGED <<r_entry, r_req, r_post_results, r_prior_results, restRun>>

StartAudit(trace, context_mode) == StartScoring(trace, TracePrompts(trace, DefaultPlaceholder, context_mode), AuditResult(<<>>))

\* run_audit_trace_budget, lines 304-338
BeginAudit ==
    /\ r_pc = "start"
    /\ r_entry = "audit"
    /\ StartAudit([steps |-> _normalize_steps(r_req.steps, DefaultTarget), spans |-> _normalize_spans(r_req.spans)], r_req.context_mode)
    /\ UNCHANGED <<r_entry, r_req, r_post_results, r_prior_results, restRun>>

\* backend.call_text_batch(prompts=post_prompts, ...)
PosteriorBatch ==
    /\ r_pc = "post"
    /\ \E apis \in [1..Len(r_prompts) -> ApiBehaviours] :
          LET res == call_text_batch(apis) IN
          IF Raised(res) THEN r_pc' = "done" /\ r_out' = Some(res) /\ UNCHANGED r_post_results
          ELSE r_pc' = "prior" /\ r_post_results' = res.value /\ UNCHANGED r_out
    /\ UNCHANGED <<r_entry, r_req, r_trace, r_prompts, r_prior_results, restRun>>

\* backend.reset_state(); backend.call_text_batch(prompts=prior_prompts, ...)
PriorBatch ==
    /\ r_pc = "prior"
    /\ \E apis \in [1..Len(r_prompts) -> ApiBehaviours] :
          LET res == call_text_batch(apis) IN
          IF Raised(res) THEN r_pc' = "done" /\ r_out' = Some(res) /\ UNCHANGED r_prior_results
          ELSE r_pc' = "score" /\ r_prior_results' = res.value /\ UNCHANGED r_out
    /\ UNCHANGED <<r_entry, r_req, r_trace, r_prompts, r_post_results, restRun>>

\* lines 246-281 of run_detect_hallucination, 340-390 of
\* run_audit_trace_budget: the returned dict, or the exception of the scoring
DetectOutcome(require_citations, details) == Return(DetectResult(IF require_citations THEN RequireCitationsDetect(details) ELSE details))
AuditOutcome(require_citations, out) == Return(AuditResult(IF require_citations THEN RequireCitationsAudit(out) ELSE out))
Outcome(entry, require_citations, results) ==
    IF Raised(results) THEN results
    ELSE IF entry = "detect" THEN DetectOutcome(require_citations, [i \in 1..Len(results.value) |-> _format_result(results.value[i], DefaultUnits)])
    ELSE AuditOutcome(require_citations, [i \in 1..Len(results.value) |-> AuditDetail(results.value[i], DefaultUnits)])

\* the scoring loop of score_trace_budget and the rest of the entry point
Finish ==
    /\ r_pc = "score"
    /\ r_out' = Some(Outcome(r_entry, r_req.require_citations, ScoreResults(Val(r_trace).steps, r_post_results, r_prior_results)))
    /\ r_pc' = "done"
    /\ UNCHANGED <<r_entry, r_req, r_trace, r_prompts, r_post_results, r_prior_results, restRun>>

NextRun == BeginDetect \/ BeginAudit \/ PosteriorBatch \/ PriorBatch \/ Finish

SpecRun == InitRun /\ [][NextRun]_vars

\* the run is over and the entry point returned a dict
Returned == r_pc = "done" /\ ~Raised(Val(r_out))
Propagated == r_pc = "done" /\ Raised(Val(r_out))
ReturnedDetails == Val(r_out).value.details

\* a completion whose log-probabilities the extractor can read: a non-empty
\* sequence whose answer token carries a log-probability
Readable(logprobs) == ~IsNone(logprobs) /\ Val(logprobs) # <<>> /\ ~IsNone(Val(logprobs)[FirstNonBlank(Val(logprobs), 1)].logprob)
Unreadable(results) == \E i \in 1..Len(results) : ~Readable(results[i].logprobs)
\* the verdict of the KL test on the i-th step
KLVerdict(i) == LET st == Val(r_trace).steps[i] IN ScoreClaim(st.idx, st.claim, st.cites, st.confidence, r_post_results[i].logprobs, r_prior_results[i].logprobs).flagged
MarkedMissing(d) == "missing_citations" \in DOMAIN d /\ d.missing_citations
IsErrorResult(res) == res.flagged /\ "error" \in DOMAIN res /\ res.error # "" /\ res.details = <<>>

\* C2: the entry points never raise; a request in which a completion call
\* failed after its retries, or a completion came back without
\* log-probabilities, returns {flagged: true, error: <non-empty>, details: []}.
C2_FailuresReturnErrorResult ==
    r_pc = "done" =>
        /\ ~Raised(Val(r_out))
        /\ (Unreadable(r_post_results) \/ Unreadable(r_prior_results) \/ Len(r_prior_results) < Len(r_prompts)) => IsErrorResult(Val(r_out).value)

\* C7: with require_citations, in both entry points, a detail without
\* citations is flagged and marked missing_citations whatever the KL test
\* decided and the top-level flagged is true; a detail with citations keeps
\* the verdict of the KL test and is not marked.
C7_MissingCitationsForceFlag ==
    (Returned /\ r_req.require_citations) =>
        \A i \in 1..Len(ReturnedDetails) :
            LET d == ReturnedDetails[i] IN
            IF d.cites = <<>> THEN d.flagged /\ MarkedMissing(d) /\ Val(r_out).value.flagged
            ELSE d.flagged = KLVerdict(i) /\ ~MarkedMissing(d)

\* C7 witness: a returned result in which a claim without citations passed
\* the KL test and is flagged all the same, next to a cited claim that keeps
\* its passing verdict.
C7_Witness ==
    /\ Returned
    /\ r_req.require_citations
    /\ \E i, j \in 1..Len(ReturnedDetails) :
          /\ ReturnedDetails[i].cites = <<>> /\ ~KLVerdict(i) /\ ReturnedDetails[i].flagged
          /\ ReturnedDetails[j].cites # <<>> /\ ~ReturnedDetails[j].flagged

\* C8: a claim is reported with flagged=false only if both of its
\* completions were readable; an unreadable completion ends the call with
\* the error and no detail is reported.
C8_UnreadableLogprobsPropagate ==
    /\ Returned => \A i \in 1..Len(ReturnedDetails) :
                      ~ReturnedDetails[i].flagged => Readable(r_post_results[i].logprobs) /\ Readable(r_prior_results[i].logprobs)
    /\ (r_pc = "done" /\ (Unreadable(r_post_results) \/ Unreadable(r_prior_results))) => Propagated

\* C8 witness: both batches came back, a prior completion carries an answer
\* token without log-probability, and the call ended with the error.
C8_Witness ==
    /\ Propagated
    /\ Len(r_prior_results) = Len(r_prompts)
    /\ ~Unreadable(r_post_results)
    /\ \E i \in 1..Len(r_prior_results) : ~IsNone(r_prior_results[i].logprobs) /\ ~Readable(r_prior_results[i].logprobs)

(***************************************************************************)
(* Citation reconciliation on one claim                                    *)
(***************************************************************************)
MaxCites == 3
CiteTokens == {"S0", "S1", "0", "1", "02", "x"}
KnownIds == {"S0", "S1", "1", "x", "S-1"}
CiteLists(n) == UNION {[1..k -> CiteTokens] : k \in 0..n}

InitCites ==
    /\ c_cites \in CiteLists(MaxCites)
    /\ c_known \in SUBSET KnownIds
    /\ c_out = None
    /\ IdleButCites

\* cites = _map_cites_to_known_ids(cites, known=known_ids)
MapCites ==
    /\ IsNone(c_out)
    /\ c_out' = Some(_map_cites_to_known_ids(c_cites, c_known))
    /\ UNCHANGED <<c_cites, c_known, restCites>>

NextCites == MapCites

SpecCites == InitCites /\ [][NextCites]_vars

\* the ids a raw token may stand for: itself, S<n> and S<n-1> for the
\* number n, the number of S<number>
Candidates(c) ==
    {c} \cup (IF isdigit(c) THEN {"S" \o IntToStr(StrToInt(c, 0))} \cup (IF StrToInt(c, 0) > 0 THEN {"S" \o IntToStr(StrToInt(c, 0) - 1)} ELSE {}) ELSE {})
        \cup (IF startswith(c, "S") /\ isdigit(From(c, 1)) THEN {From(c, 1)} ELSE {})
Represents(id, c) == id = c \/ (id \in c_known /\ id \in Candidates(c))
\* the first raw token that resolves to the id
FirstToken(id) == CHOOSE k \in 1..Len(c_cites) : MapCite(c_cites[k], c_known) = id /\ \A j \in 1..(k - 1) : MapCite(c_cites[j], c_known) # id

\* C11: reconciliation drops no token (each is in the result as the known
\* sid it resolves to or as itself), the result has no duplicate and keeps
\* the ids in the order of their first occurrence.
C11_NoCitationDropped ==
    ~IsNone(c_out) =>
        LET out == Val(c_out) IN
        /\ \A i \in 1..Len(c_cites) : \E k \in 1..Len(out) : Represents(out[k], c_cites[i])
        /\ \A k \in 1..Len(out) : \E i \in 1..Len(c_cites) : out[k] = MapCite(c_cites[i], c_known)
        /\ \A k, l \in 1..Len(out) : k # l => out[k] # out[l]
        /\ \A k, l \in 1..Len(out) : k < l => FirstToken(out[k]) < FirstToken(out[l])

\* C11 witness: two tokens resolve to one known sid, kept once, and an
\* unknown token is passed through after it.
C11_Witness ==
    /\ ~IsNone(c_out)
    /\ Len(Val(c_out)) = 2
    /\ Len(c_cites) = 3
    /\ Val(c_out)[1] \in c_known /\ Val(c_out)[1] # c_cites[1]
    /\ Val(c_out)[2] \notin c_known /\ Val(c_out)[2] = c_cites[3]

\* the spans of the pool that the step cites, in pool order
IsCited(sp) == sp.sid \in SeqToSet(p_cites)
CitedSpans == SelectSeq(p_spans, IsCited)

\* C12: context selection returns, in pool order, every span for the modes
\* all and full, the cited spans for the mode cited, and for the mode auto
\* the cited spans if the pool has one, every span otherwise.
C12_ContextSelection ==
    (~IsNone(p_ctx) /\ ~Raised(Val(p_ctx))) =>
        Val(p_ctx).value = CASE ModeKey(p_mode) \in {"all", "full"} -> p_spans
                             [] ModeKey(p_mode) = "cited" -> CitedSpans
                             [] ModeKey(p_mode) = "auto" -> IF CitedSpans # <<>> THEN CitedSpans ELSE p_spans

(***************************************************************************)
(* The two batches of score_trace_budget on OpenAIBackend's thread pool    *)
(***************************************************************************)
MaxBatch == 2
MaxWorkers == 2
BatchNames == {"post", "prior"}
\* the API fails every attempt, or answers at once with YES at 0.95 or 0.1
BatchBehaviours == {[failures |-> Retries + 1, content |-> None], [failures |-> 0, content |-> Some(<<YesToken("YES", LogTable[19])>>)], [failures |-> 0, content |-> Some(<<YesToken("NO", LogTable[2])>>)]}
BatchSteps(n) == [i \in 1..n |-> [idx |-> i - 1, claim |-> "claim", cites |-> <<>>, confidence |-> DefaultTarget]]
Future(status, result) == [status |-> status, result |-> result]

InitBatch ==
    /\ \E n \in 1..MaxBatch : t_api \in [BatchNames -> [1..n -> BatchBehaviours]]
    /\ t_workers \in 1..MaxWorkers
    /\ t_pc = "start"
    /\ t_futs = [b \in BatchNames |-> <<>>]
    /\ t_order = <<>>
    /\ t_got = <<>>
    /\ t_exc = None
    /\ t_resets = 0
    /\ t_results = [b \in BatchNames |-> None]
    /\ t_out = None
    /\ IdleButBatch

\* futs = [ex.submit(self.call_text, prompt=p, ...) for p in prompts]
Submit(b) ==
    /\ t_pc = (IF b = "post" THEN "start" ELSE "prior_submit")
    /\ t_futs' = [t_futs EXCEPT ![b] = [i \in 1..Len(t_api[b]) |-> Future("queued", None)]]
    /\ t_order' = <<>>
    /\ t_got' = <<>>
    /\ t_pc' = b \o "_wait"
    /\ UNCHANGED <<t_api, t_workers, t_exc, t_resets, t_results, t_out, restBatch>>

\* a worker thread of the pool takes the oldest queued work item
Running(futs) == {i \in 1..Len(futs) : futs[i].status = "running"}
StartCall(b, i) ==
    /\ i \in 1..Len(t_futs[b])
    /\ t_futs[b][i].status = "queued"
    /\ \A j \in 1..(i - 1) : t_futs[b][j].status # "queued"
    /\ Cardinality(Running(t_futs[b])) < Max(1, t_workers)
    /\ t_futs' = [t_futs EXCEPT ![b][i] = Future("running", None)]
    /\ UNCHANGED <<t_api, t_workers, t_pc, t_order, t_got, t_exc, t_resets, t_results, t_out, restBatch>>

\* the work item ends: call_text has returned or raised, the future is set
FinishCall(b, i) ==
    /\ i \in 1..Len(t_futs[b])
    /\ t_futs[b][i].status = "running"
    /\ t_futs' = [t_futs EXCEPT ![b][i] = Future("done", Some(call_text_chat(t_api[b][i])))]
    /\ t_order' = Append(t_order, i)
    /\ UNCHANGED <<t_api, t_workers, t_pc, t_got, t_exc, t_resets, t_results, t_out, restBatch>>

\* return [f.result() for f in futs]: the next future of the list, once done
NextCompleted(got, order) == IF Len(order) > Len(got) THEN order[Len(got) + 1] ELSE 0
NextFuture(got, order) == Len(got) + 1
GetResult(b) ==
    /\ t_pc = b \o "_wait"
    /\ LET k == NextFuture(t_got, t_order) IN
          /\ k \in 1..Len(t_futs[b])
          /\ t_futs[b][k].status = "done"
          /\ IF Raised(Val(t_futs[b][k].result))
             THEN t_exc' = t_futs[b][k].result /\ t_pc' = b \o "_exit" /\ UNCHANGED t_got
             ELSE /\ t_got' = Append(t_got, Val(t_futs[b][k].result).value)
                  /\ t_pc' = (IF Len(t_got) + 1 = Len(t_futs[b]) THEN b \o "_exit" ELSE t_pc)
                  /\ UNCHANGED t_exc
    /\ UNCHANGED <<t_api, t_workers, t_futs, t_order, t_resets, t_results, t_out, restBatch>>

\* the end of the with block: ThreadPoolExecutor.__exit__ is
\* shutdown(wait=True), which joins the workers after they have emptied the
\* queue; then the return, or the exception, leaves call_text_batch
ShutdownNoWait(futs) == TRUE
PoolDrained(futs) == \A i \in 1..Len(futs) : futs[i].status = "done"
ExitPool(b) ==
    /\ t_pc = b \o "_exit"
    /\ PoolDrained(t_futs[b])
    /\ IF IsNone(t_exc)
       THEN /\ t_results' = [t_results EXCEPT ![b] = Some(t_got)]
            /\ t_pc' = (IF b = "post" THEN "reset" ELSE "score")
            /\ UNCHANGED t_out
       ELSE /\ t_out' = t_exc
            /\ t_pc' = "done"
            /\ UNCHANGED t_results
    /\ UNCHANGED <<t_api, t_workers, t_futs, t_order, t_got, t_exc, t_resets, restBatch>>

\* if hasattr(backend, "reset_state"): backend.reset_state()
SkipReset ==
    /\ t_pc = "reset"
    /\ t_pc' = "prior_submit"
    /\ UNCHANGED <<t_api, t_workers, t_futs, t_order, t_got, t_exc, t_resets, t_results, t_out, restBatch>>
ResetState ==
    /\ t_pc = "reset"
    /\ t_resets' = t_resets + 1
    /\ t_pc' = "prior_submit"
    /\ UNCHANGED <<t_api, t_workers, t_futs, t_order, t_got, t_exc, t_results, t_out, restBatch>>

\* for s, post, prior in zip(steps, post_results, prior_results): ...
ScoreBatches ==
    /\ t_pc = "score"
    /\ t_out' = Some(ScoreResults(BatchSteps(Len(t_api["post"])), Val(t_results["post"]), Val(t_results["prior"])))
    /\ t_pc' = "done"
    /\ UNCHANGED <<t_api, t_workers, t_futs, t_order, t_got, t_exc, t_resets, t_results, restBatch>>

NextBatch ==
    \/ \E b \in BatchNames : Submit(b)
    \/ \E b \in BatchNames, i \in 1..MaxBatch + 1 : StartCall(b, i)
    \/ \E b \in BatchNames, i \in 1..MaxBatch + 1 : FinishCall(b, i)
    \/ \E b \in BatchNames : GetResult(b)
    \/ \E b \in BatchNames : ExitPool(b)
    \/ ResetState
    \/ ScoreBatches
SpecBatch == InitBatch /\ [][NextBatch]_vars

OwnOutcome(b, i) == call_text_chat(t_api[b][i])
OwnResults(b) == [i \in 1..Len(t_api[b]) |-> OwnOutcome(b, i).value]
BatchLeft(b) == t_futs[b] # <<>> /\ t_pc \notin {b \o "_wait", b \o "_exit"}
AllDone(b) == \A i \in 1..Len(t_futs[b]) : t_futs[b][i].status = "done"
Issued(b) == {i \in 1..Len(t_futs[b]) : t_futs[b][i].status # "queued"}

\* C13: whatever the order in which the calls of a batch finish, the batch
\* returns the result of prompt i at position i, and claim i is scored from
\* the completions of its own posterior and prior prompts.
C13_BatchKeepsPromptOrder ==
    /\ \A b \in BatchNames : ~IsNone(t_results[b]) => Val(t_results[b]) = OwnResults(b)
    /\ (t_pc = "done" /\ IsNone(t_exc)) =>
           t_out = Some(ScoreResults(BatchSteps(Len(t_api["post"])), OwnResults("post"), OwnResults("prior")))
C13_Witness ==
    /\ t_pc = "done"
    /\ IsNone(t_exc)
    /\ t_order = <<2, 1>>
    /\ OwnOutcome("prior", 1) # OwnOutcome("prior", 2)
    /\ OwnOutcome("post", 1) # OwnOutcome("prior", 1)

\* C14: the two batches are strictly sequential: no prior call starts before
\* every posterior call has finished, reset_state runs once, after the
\* posterior batch and before the prior batch, and a failed posterior batch
\* is followed by no prior call and no reset.
C14_BatchesSequential ==
    /\ t_resets <= 1
    /\ t_resets = 1 => (BatchLeft("post") /\ AllDone("post") /\ ~IsNone(t_results["post"]))
    /\ t_futs["prior"] # <<>> => t_resets = 1
    /\ Issued("prior") # {} => AllDone("post")
    /\ (\E i \in 1..Len(t_futs["post"]) : t_futs["post"][i].status = "done" /\ Raised(OwnOutcome("post", i))) =>
           (t_futs["prior"] = <<>> /\ t_resets = 0)
C14_Witness ==
    /\ t_resets = 1
    /\ Cardinality(Running(t_futs["prior"])) = 2

\* C15: a failed call cancels no sibling: every future that is done holds
\* the outcome of its own call, and a batch is left, by return or by
\* exception, only when all its futures are done.
C15_BatchWaitsForAllCalls ==
    /\ \A b \in BatchNames : \A i \in 1..Len(t_futs[b]) :
           /\ t_futs[b][i].status \in {"queued", "running", "done"}
           /\ t_futs[b][i].status = "done" => t_futs[b][i].result = Some(OwnOutcome(b, i))
    /\ \A b \in BatchNames : BatchLeft(b) => AllDone(b)
    /\ ~IsNone(t_out) => \A b \in BatchNames : AllDone(b)
C15_Witness ==
    /\ t_pc = "done"
    /\ ~IsNone(t_exc)
    /\ \E p, q \in 1..Len(t_order) :
           /\ p < q
           /\ Raised(OwnOutcome("post", t_order[p]))
           /\ ~Raised(OwnOutcome("post", t_order[q]))
    /\ t_futs["prior"] = <<>>

(***************************************************************************)
(* The retry loop of call_text_chat                                        *)
(***************************************************************************)
MaxRetries == 3
DefaultBackoff == 15
BackoffTenths == {5, DefaultBackoff}
RequestErrors == {"error", "timeout"}

InitCall ==
    /\ k_retries \in 0..MaxRetries
    /\ k_backoff \in BackoffTenths
    /\ k_pc = "request"
    /\ k_attempt = 0
    /\ k_log = <<>>
    /\ k_waits = <<>>
    /\ k_last_err = None
    /\ k_out = None
    /\ IdleButCall

\* client.chat.completions.create(...) answers: return TextResult(...)
RequestSucceeds ==
    /\ k_pc = "request"
    /\ k_attempt < k_retries + 1
    /\ k_log' = Append(k_log, "ok")
    /\ k_out' = Some(Return("TextResult"))
    /\ k_pc' = "done"
    /\ UNCHANGED <<k_retries, k_backoff, k_attempt, k_waits, k_last_err, restCall>>

\* the request raises (an API error, or the timeout of the client):
\* last_err = e; if attempt >= retries: break, and the raise after the loop
RequestFails(e) ==
    /\ k_pc = "request"
    /\ k_attempt < k_retries + 1
    /\ k_log' = Append(k_log, e)
    /\ k_last_err' = Some(e)
    /\ IF k_attempt >= k_retries
       THEN k_pc' = "done" /\ k_out' = Some(Raise("OpenAI chat call failed after retries"))
       ELSE k_pc' = "sleep" /\ UNCHANGED k_out
    /\ UNCHANGED <<k_retries, k_backoff, k_attempt, k_waits, restCall>>

\* time.sleep(float(retry_backoff_s) * (attempt + 1)), then the next attempt
ConstantBackoff(retry_backoff_s, attempt) == retry_backoff_s
Backoff(retry_backoff_s, attempt) == retry_backoff_s * (attempt + 1)
Sleep ==
    /\ k_pc = "sleep"
    /\ k_waits' = Append(k_waits, Backoff(k_backoff, k_attempt))
    /\ k_attempt' = k_attempt + 1
    /\ k_pc' = "request"
    /\ UNCHANGED <<k_retries, k_backoff, k_log, k_last_err, k_out, restCall>>

NextCall ==
    \/ RequestSucceeds
    \/ \E e \in RequestErrors : RequestFails(e)
    \/ Sleep
SpecCall == InitCall /\ [][NextCall]_vars
\* a request ends (the client has a timeout) and a sleep ends
SpecCallFair == SpecCall /\ WF_vars(NextCall)

RetryLoopSafe ==
    /\ Len(k_log) <= k_retries + 1
    /\ Len(k_waits) <= k_retries
    /\ \A k \in 1..Len(k_waits) : k_waits[k] = k_backoff * k
    /\ \A k \in 1..(Len(k_waits) - 1) : k_waits[k] < k_waits[k + 1]
    /\ Len(k_waits) \in {Len(k_log), Len(k_log) - 1}
    /\ \A k \in 1..(Len(k_log) - 1) : k_log[k] # "ok"
    /\ (k_log # <<>> /\ k_log[Len(k_log)] = "ok") <=> (~IsNone(k_out) /\ ~Raised(Val(k_out)))
    /\ (~IsNone(k_out) /\ Raised(Val(k_out))) <=> (Len(k_log) = k_retries + 1 /\ k_log[Len(k_log)] # "ok")
    /\ k_pc = "done" <=> ~IsNone(k_out)

\* C16: a call issues at most retries+1 requests, sleeps retry_backoff_s*k
\* before its k-th retry (strictly longer each time), returns at its first
\* successful request, raises when the last attempt has failed, and ends.
C16_BoundedRetries == []RetryLoopSafe /\ <>(k_pc = "done")
C16_Witness ==
    /\ k_retries = Retries
    /\ k_backoff = DefaultBackoff
    /\ Len(k_waits) = Retries
    /\ k_log[Len(k_log)] = "timeout"
    /\ ~IsNone(k_out)
    /\ Raised(Val(k_out))

(***************************************************************************)
(* Claims about the start of the entry points                              *)
(***************************************************************************)
EmptyPool == _normalize_spans(r_req.spans) = <<>>
CompletionCalled == r_pc \in {"post", "prior", "score"} \/ r_post_results # <<>>

\* C17: with a pool that is empty once normalised, both entry points fail at
\* once with an error: no completion call is issued and what is returned is
\* the error result, without any per-claim detail.
C17_EmptyPoolFailsImmediately ==
    (EmptyPool /\ r_pc # "start") =>
        /\ ~CompletionCalled
        /\ r_pc = "done"
        /\ Propagated \/ (Returned /\ IsErrorResult(Val(r_out).value))

RecognizedModes == {"all", "full", "auto", "cited"}
\* C18: a request with an unrecognized context_mode fails with an error
\* before any completion call and returns no scored result, for every
\* number of claims, zero included.
C18_UnknownModeFails ==
    (ModeKey(r_req.context_mode) \notin RecognizedModes /\ r_pc # "start") =>
        /\ ~CompletionCalled
        /\ r_pc = "done"
        /\ Propagated \/ (Returned /\ IsErrorResult(Val(r_out).value))

(***************************************************************************)
(* The estimator on answer positions with several alternatives             *)
(***************************************************************************)
MaxAlts == 2
AltTokens == {"YES", " YES", "yes", "NO", " "}
AltLogprobs == {None, Some(NegInf), Some(LogTable[2]), Some(LogTable[12])}
\* the alternatives of one position are distinct tokens
AltLists(n) == UNION {{top \in [1..k -> [token : AltTokens, logprob : AltLogprobs]] : \A i, j \in 1..k : top[i].token = top[j].token => i = j} : k \in 0..n}

InitEstimate ==
    /\ e_logprobs \in {OneTokenCompletion("NO", LogTable[10], top) : top \in AltLists(MaxAlts)}
    /\ e_out = None
    /\ IdleButEstimate

Estimate ==
    /\ IsNone(e_out)
    /\ e_out' = Some(yesprob_from_logprobs(e_logprobs))
    /\ UNCHANGED <<e_logprobs, restEstimate>>

NextEstimate == Estimate
SpecEstimate == InitEstimate /\ [][NextEstimate]_vars

Estimated == ~IsNone(e_out) /\ ~Raised(Val(e_out))
AnswerAlts == Val(e_logprobs)[1].top_logprobs
\* the alternatives that carry a log-probability, and those of them that
\* spell YES
WithLogprob == {i \in 1..Len(AnswerAlts) : ~IsNone(AnswerAlts[i].logprob)}
MatchesYes(i) == upper(strip(AnswerAlts[i].token)) = "YES"
YesAlts == {i \in WithLogprob : MatchesYes(i)}
Mass(i) == exp(Val(AnswerAlts[i].logprob))
Clamp(p) == Min(Max(p, 0), One)
RECURSIVE MassOfAlts(_)
MassOfAlts(I) == IF I = {} THEN 0 ELSE LET i == CHOOSE x \in I : TRUE IN Mass(i) + MassOfAlts(I \ {i})
\* one representative per left-trimmed token string: an alternative of
\* greatest mass among those that spell the same string, the first of them
SameString(i, j) == lstrip(AnswerAlts[i].token) = lstrip(AnswerAlts[j].token)
Representatives(I) == {i \in I : \A j \in I : SameString(i, j) => (Mass(j) < Mass(i) \/ (Mass(j) = Mass(i) /\ i <= j))}

\* C19 as stated: with a YES alternative present, both bounds are the
\* clamped sum of the masses of all the alternatives that spell YES.
C19_EveryYesAlternativeCounts ==
    (Estimated /\ YesAlts # {}) =>
        /\ Val(e_out).p_yes_lower = Clamp(MassOfAlts(YesAlts))
        /\ Val(e_out).p_yes_upper = Clamp(MassOfAlts(YesAlts))

\* C19 amended: with a YES alternative present, both bounds are the clamped
\* sum of the masses of the distinct left-trimmed token strings that spell
\* YES, each string counted once with the greatest mass reported for it.
C19_EveryYesStringCountsOnce ==
    (Estimated /\ YesAlts # {}) =>
        /\ Val(e_out).p_yes_lower = Clamp(MassOfAlts(Representatives(YesAlts)))
        /\ Val(e_out).p_yes_upper = Clamp(MassOfAlts(Representatives(YesAlts)))
C19_Witness ==
    /\ Estimated
    /\ \E i, j \in YesAlts : i # j /\ SameString(i, j) /\ Mass(i) > Mass(j) /\ Mass(j) > 0
    /\ Val(e_out).p_yes_lower = Prob(12)

\* C20: with no alternative that spells YES, the lower bound is 0 and the
\* upper bound is exp of the least log-probability among the alternatives
\* when there is one and it is finite, 1.0 otherwise.
C20_NoYesBounds ==
    (Estimated /\ \A i \in 1..Len(AnswerAlts) : ~MatchesYes(i)) =>
        /\ Val(e_out).p_yes_lower = 0
        /\ Val(e_out).p_yes_upper =
               IF WithLogprob # {} /\ \A i \in WithLogprob : AnswerAlts[i].logprob # Some(NegInf)
               THEN CHOOSE m \in {Mass(i) : i \in WithLogprob} : \A i \in WithLogprob : m <= Mass(i)
               ELSE One
C20_Witness ==
    /\ Estimated
    /\ \A i \in 1..Len(AnswerAlts) : ~MatchesYes(i)
    /\ \E i, j \in WithLogprob : Mass(i) < Mass(j) /\ AnswerAlts[i].token = " "
    /\ Val(e_out).p_yes_upper = Prob(2)

(***************************************************************************)
(* The extractor on sequences of several tokens                            *)
(***************************************************************************)
MaxTokens == 3
ExtractTokens == {" ", "", "YES", " no "}
ExtractLogprobs == {None, Some(LogTable[2]), Some(LogTable[10])}
\* a token of the completion; its alternatives are itself, when it has a
\* log-probability
TokenInfo(tok, lp) == [token |-> tok, logprob |-> lp, top_logprobs |-> IF IsNone(lp) THEN <<>> ELSE <<[token |-> tok, logprob |-> lp]>>]
ExtractSeqs(n) == UNION {[1..k -> {TokenInfo(tok, lp) : tok \in ExtractTokens, lp \in ExtractLogprobs}] : k \in 0..n}

InitExtract ==
    /\ x_logprobs \in {None} \cup {Some(seq) : seq \in ExtractSeqs(MaxTokens)}
    /\ x_out = None
    /\ IdleButExtract

Extract ==
    /\ IsNone(x_out)
    /\ x_out' = Some(extract_answer_topk(x_logprobs))
    /\ UNCHANGED <<x_logprobs, restExtract>>

NextExtract == Extract
SpecExtract == InitExtract /\ [][NextExtract]_vars

NonBlank(seq) == {i \in 1..Len(seq) : strip(seq[i].token) # ""}
FirstOf(I) == CHOOSE i \in I : \A j \in I : i <= j

\* C21: the extractor reads the first token whose stripped text is not
\* empty, wherever it is: it raises when that token has no log-probability
\* and when the sequence is empty, and otherwise returns the position, the
\* token, the log-probability and the alternatives of that token.
C21_FirstNonBlankToken ==
    (~IsNone(x_out) /\ ~IsNone(x_logprobs)) =>
        LET seq == Val(x_logprobs)
            out == Val(x_out)
        IN  /\ seq = <<>> => Raised(out)
            /\ NonBlank(seq) # {} =>
                   LET tok == seq[FirstOf(NonBlank(seq))] IN
                   IF IsNone(tok.logprob) THEN Raised(out)
                   ELSE /\ ~Raised(out)
                        /\ out.pos = FirstOf(NonBlank(seq)) - 1
                        /\ out.generated_token = tok.token
                        /\ out.generated_logprob = Val(tok.logprob)
                        /\ out.kth_logprob = tok.logprob
C21_Witness ==
    /\ ~IsNone(x_out)
    /\ ~Raised(Val(x_out))
    /\ Val(x_out).pos = 2
    /\ Val(x_logprobs)[1].logprob # Val(x_logprobs)[3].logprob
    /\ IsNone(Val(x_logprobs)[2].logprob)

(***************************************************************************)
(* The cap on the number of claims of free-text mode                       *)
(***************************************************************************)
CapValues == 0..MaxSentences \cup {DefaultMaxClaims}
InitCap ==
    /\ s_parts \in UNION {[1..n -> MergeSentences \X {"S0"}] : n \in 0..MaxSentences}
    /\ \E sep \in MergeSeparators : s_answer = RenderParts(s_parts, sep)
    /\ s_mode = "sentences"
    /\ s_max_claims \in CapValues
    /\ s_known = {"S0", "S1"}
    /\ s_claims = None
    /\ s_steps = None
    /\ IdleButSplit
SpecCap == InitCap /\ [][NextSplit]_vars

\* the claims the answer merges into, before any cap
MergedClaims == IF strip(s_answer) = "" THEN <<>> ELSE MergeSegments(RawSegments(strip(s_answer), s_mode), <<>>)
FirstClaimsScored(count) ==
    /\ Len(Val(s_steps)) = count
    /\ \A i \in 1..count : Val(s_steps)[i].claim = MergedClaims[i] /\ Val(s_steps)[i].idx = i - 1

\* C22 as stated: the first min(N, max_claims) merged claims are scored, in
\* order, with idx 0..count-1, and never more than max_claims of them.
C22_CapNeverExceeded ==
    ~IsNone(s_steps) =>
        /\ FirstClaimsScored(Min(Len(MergedClaims), s_max_claims))
        /\ Len(Val(s_steps)) <= s_max_claims

\* C22 amended: a cap below 1 counts as 1: the first min(N, max(1,
\* max_claims)) merged claims are scored, in order, with idx 0..count-1.
C22_CapOfAtLeastOne ==
    ~IsNone(s_steps) => FirstClaimsScored(Min(Len(MergedClaims), IF s_max_claims < 1 THEN 1 ELSE s_max_claims))
C22_Witness ==
    /\ ~IsNone(s_steps)
    /\ s_max_claims = 2
    /\ Len(MergedClaims) = 3
    /\ Len(Val(s_steps)) = 2
    /\ Val(s_steps)[1].claim # Val(s_steps)[2].claim

(***************************************************************************)
(* Claims about the order and the content of the details                   *)
(***************************************************************************)
\* the raw steps that have a claim, and the idx of a raw step: the one the
\* caller gave, its position otherwise
KeptSteps == {i \in 1..Len(r_req.steps) : strip(r_req.steps[i].claim) # ""}
RawIdx(i) == IF IsNone(r_req.steps[i].idx) THEN i - 1 ELSE Val(r_req.steps[i].idx)
Bijections(n, S) == {f \in [1..n -> S] : \A i, j \in 1..n : f[i] = f[j] => i = j}
PromptsOfDetail(d) == StepPrompts(Val(r_trace).spans, d.claim, d.cites, DefaultPlaceholder, r_req.context_mode)

\* C23: the details of explicit-steps mode are the steps of the request in
\* non-decreasing order of idx, steps of equal idx in input order, each with
\* the idx of its step, and the k-th pair of prompts is that of the k-th
\* detail.
C23_StepsSortedByIdx ==
    (r_entry = "audit" /\ Returned) =>
        /\ Len(ReturnedDetails) = Cardinality(KeptSteps)
        /\ Len(r_prompts) = Len(ReturnedDetails)
        /\ \E f \in Bijections(Len(ReturnedDetails), KeptSteps) :
              /\ \A k \in 1..Len(ReturnedDetails) :
                    /\ ReturnedDetails[k].idx = RawIdx(f[k])
                    /\ ReturnedDetails[k].claim = strip(r_req.steps[f[k]].claim)
                    /\ r_prompts[k].post_prompt = PromptsOfDetail(ReturnedDetails[k]).post_prompt
                    /\ r_prompts[k].prior_prompt = PromptsOfDetail(ReturnedDetails[k]).prior_prompt
              /\ \A k, l \in 1..Len(ReturnedDetails) : k < l =>
                    /\ ReturnedDetails[k].idx <= ReturnedDetails[l].idx
                    /\ ReturnedDetails[k].idx = ReturnedDetails[l].idx => f[k] < f[l]
C23_Witness ==
    /\ r_entry = "audit"
    /\ Returned
    /\ Len(ReturnedDetails) = 2
    /\ RawIdx(1) > RawIdx(2)
    /\ ReturnedDetails[1].idx = RawIdx(2)
    /\ r_prompts[1] # r_prompts[2]

(***************************************************************************)
(* The fallback chain of citation reconciliation, token by token           *)
(***************************************************************************)
\* the name S<n>, as f"S{n}" writes it
SName(n) == IF n < 0 THEN "S-" \o IntToStr(0 - n) ELSE "S" \o IntToStr(n)
\* the chain of fallbacks, the second with and without its test n > 0
Resolved(c, known, positive_only) ==
    IF c \in known THEN c
    ELSE IF isdigit(c) /\ SName(StrToInt(c, 0)) \in known THEN SName(StrToInt(c, 0))
    ELSE IF isdigit(c) /\ (positive_only => StrToInt(c, 0) > 0) /\ SName(StrToInt(c, 0) - 1) \in known THEN SName(StrToInt(c, 0) - 1)
    ELSE IF Len(c) > 1 /\ Head(c) = Head("S") /\ isdigit(Tail(c)) /\ Tail(c) \in known THEN Tail(c)
    ELSE c
ResolvedIds(positive_only) == {Resolved(c_cites[i], c_known, positive_only) : i \in 1..Len(c_cites)}

\* C24 as stated: each token resolves to the first that applies of: itself
\* when known, S<n> then S<n-1> when it is the number n, its digits when it
\* is S<digits>, itself.
C24_FallbackChain ==
    ~IsNone(c_out) => SeqToSet(Val(c_out)) = ResolvedIds(FALSE)

\* C24 amended: the same chain, S<n-1> being tried for n > 0 only.
C24_FallbackChainPositive ==
    ~IsNone(c_out) => SeqToSet(Val(c_out)) = ResolvedIds(TRUE)
C24_Witness ==
    /\ c_cites = <<"0", "02", "S1">>
    /\ c_known = {"S-1", "S1", "1"}
    /\ c_out = Some(<<"0", "S1">>)

\* C25: every detail of a returned result, of either entry point, carries
\* the summaries of the prior and of the posterior probability and the
\* required, observed and gap intervals, in the requested units.
C25_DetailsCarrySummaries ==
    Returned =>
        \A i \in 1..Len(ReturnedDetails) :
            /\ {"prior_yes", "post_yes", "required", "observed", "budget_gap"} \subseteq DOMAIN ReturnedDetails[i]
            /\ ReturnedDetails[i].required.units = DefaultUnits
            /\ ReturnedDetails[i].observed.units = DefaultUnits
            /\ ReturnedDetails[i].budget_gap.units = DefaultUnits

(***************************************************************************)
(* The service wrappers (k8s_wrapper.py)                                   *)
(***************************************************************************)
\* a response body: its text, and the value resp.json() parses from it
\* (None when the text is not JSON)
Body(text, json) == [text |-> text, json |-> json]
ServiceResult == [flagged |-> FALSE, under_budget |-> FALSE, details |-> <<[idx |-> 0, flagged |-> FALSE]>>]
ReplyBodies == {Body("<html>Bad Gateway</html>", None), Body("", None), Body("{detail: no}", Some([detail |-> "no"])), Body("{}", Some(EmptyDict)), Body("{flagged: false, ...}", Some(ServiceResult))}
ReplyStatuses == {200, 401, 402, 500}
Replies == {[kind |-> "response", status |-> st, body |-> b] : st \in ReplyStatuses, b \in ReplyBodies}
               \cup {[kind |-> k, status |-> 0, body |-> Body("", None)] : k \in {"timeout", "connect"}}
TextLimit == 500

\* resp.json(): the parsed body, or the JSONDecodeError
resp_json(resp) == IF IsNone(resp.body.json) THEN Raise("JSONDecodeError") ELSE Return(Val(resp.body.json))
\* f"...: {resp.json().get('detail', default)}" in an error result
DetailError(prefix, parsed, default) ==
    IF Raised(parsed) THEN parsed
    ELSE Return(ErrorResult(prefix \o (IF "detail" \in DOMAIN parsed.value THEN parsed.value.detail ELSE default)))
\* lines 124-150: what the wrapper makes of a response
HandleResponse(resp) ==
    IF resp.status = 401 THEN DetailError("Authentication failed: ", resp_json(resp), "Invalid API key")
    ELSE IF resp.status = 402 THEN DetailError("Budget exceeded: ", resp_json(resp), "Budget limit reached")
    ELSE IF resp.status # 200 THEN Return(ErrorResult("Service error (" \o IntToStr(resp.status) \o "): " \o Upto(resp.body.text, Min(Len(resp.body.text), TextLimit))))
    ELSE resp_json(resp)

InitK8s ==
    /\ w_entry \in {"detect", "audit"}
    /\ w_key \in {"", " ", "sk-1"}
    /\ w_reply \in {Some(r) : r \in Replies}
    /\ w_pc = "start"
    /\ w_sent = 0
    /\ w_out = None
    /\ IdleButK8s

\* lines 82-122: the API key is read, the payload built, the request posted
PostRequest ==
    /\ w_pc = "start"
    /\ IF strip(w_key) = ""
       THEN /\ w_out' = Some(Return(ErrorResult("OPENAI_API_KEY is not set (required for K8s service authentication)")))
            /\ w_pc' = "done"
            /\ UNCHANGED w_sent
       ELSE /\ w_sent' = w_sent + 1
            /\ w_pc' = "posted"
            /\ UNCHANGED w_out
    /\ UNCHANGED <<w_entry, w_key, w_reply, restK8s>>

\* lines 124-167: the response, the timeout or the connection error
Receive ==
    /\ w_pc = "posted"
    /\ w_out' = Some(CASE Val(w_reply).kind = "timeout" -> Return(ErrorResult("Service timeout after 60.0s"))
                       [] Val(w_reply).kind = "connect" -> Return(ErrorResult("Service connection error: connect"))
                       [] Val(w_reply).kind = "response" -> HandleResponse(Val(w_reply)))
    /\ w_pc' = "done"
    /\ UNCHANGED <<w_entry, w_key, w_reply, w_sent, restK8s>>

NextK8s == PostRequest \/ Receive
SpecK8s == InitK8s /\ [][NextK8s]_vars

Ok200 == w_sent = 1 /\ Val(w_reply).kind = "response" /\ Val(w_reply).status = 200
\* C26: every outcome other than HTTP 200 makes the wrapper return the
\* error result, whatever the body, and never raise; without API key no
\* request is posted; on HTTP 200 the parsed result of the service is
\* returned as it is.
C26_WrapperNeverRaises ==
    /\ strip(w_key) = "" => w_sent = 0
    /\ (w_pc = "done" /\ ~Ok200) =>
          /\ ~Raised(Val(w_out))
          /\ IsErrorResult(Val(w_out).value)
          /\ Val(w_out).value.under_budget
    /\ (w_pc = "done" /\ Ok200 /\ ~Raised(Val(w_out))) => Val(w_reply).body.json = Some(Val(w_out).value)

(***************************************************************************)
(* Two scoring calls on one trace (trace_budget.py, backends/base.py)      *)
(* make_backend builds a new backend object in every call; what a call     *)
(* could leave behind is the Trace object it was given.                    *)
(***************************************************************************)
\* math.log((1.0 - 0.55) / 2.0) of DummyBackend, in micro-nats
DummyLogOther == -1491655
DummyTop == <<Alt("YES", LogTable[11]), Alt("NO", DummyLogOther), Alt("UNSURE", DummyLogOther)>>
\* DummyBackend.call_text: the same logprobs for every prompt
DummyBackend(prompt) == [logprobs |-> OneTokenCompletion("YES", LogTable[11], DummyTop)]
\* OpenAIBackend.call_text against a server that answers by the prompt alone:
\* YES is likely unless the evidence of the prompt is redacted
OpenAIBackend(prompt) ==
    IF Contains(prompt, DefaultPlaceholder) THEN [logprobs |-> Some(<<YesToken("NO", LogTable[2])>>)]
    ELSE [logprobs |-> Some(<<YesToken("YES", LogTable[19])>>)]
\* make_backend(cfg).call_text_batch(prompts=...)
BackendBatch(kind, prompts) == [i \in 1..Len(prompts) |-> IF kind = "dummy" THEN DummyBackend(prompts[i]) ELSE OpenAIBackend(prompts[i])]

\* lines 301-357 of score_trace_budget: the two batches and the scoring loop
ScoreWithPrompts(steps, kind, ps) ==
    IF Raised(ps) THEN ps
    ELSE ScoreResults(steps, BackendBatch(kind, [i \in 1..Len(ps.value) |-> ps.value[i].post_prompt]), BackendBatch(kind, [i \in 1..Len(ps.value) |-> ps.value[i].prior_prompt]))
score_trace_budget(trace, kind, placeholder, context_mode) ==
    IF trace.steps = <<>> THEN Return(<<>>)
    ELSE ScoreWithPrompts(trace.steps, kind, TracePrompts(trace, placeholder, context_mode))

MaxCalls == 2
TwicePools == {_normalize_spans(sp) : sp \in RunPools} \cup {<<[sid |-> "S0", text |-> "Sky is blue."], [sid |-> "S1", text |-> "What is blue?"]>>}
TwiceModes == {"all", "auto", "cited", "bogus"}

InitTwice ==
    /\ d_trace \in {[steps |-> _normalize_steps(st, DefaultTarget), spans |-> sp] : st \in RunStepLists, sp \in TwicePools}
    /\ d_mode \in TwiceModes
    /\ d_kind \in {"dummy", "openai"}
    /\ d_outs = <<>>
    /\ IdleButTwice

\* one call of score_trace_budget with the trace and the options of the
\* call before
ScoreTrace ==
    /\ Len(d_outs) < MaxCalls
    /\ d_outs' = Append(d_outs, score_trace_budget(d_trace, d_kind, DefaultPlaceholder, d_mode))
    /\ d_trace' = TraceAfterScoring(d_trace, DefaultPlaceholder)
    /\ UNCHANGED <<d_mode, d_kind, restTwice>>

NextTwice == ScoreTrace

SpecTwice == InitTwice /\ [][NextTwice]_vars

PromptOfLines(lines, claim) == strip(PromptHead \o strip(JoinLines(lines)) \o PromptMid \o strip(claim) \o PromptTail)
\* the line of a span whose text was replaced by the placeholder
PlaceholderLine(sp) == "[" \o sp.sid \o "] " \o DefaultPlaceholder
\* the spans of the context the prior prompt redacts
IsScrubbed(sp) == p_cites = <<>> \/ sp.sid \in SeqToSet(p_cites)

\* C28: the posterior prompt lists the spans of the selected context in
\* order, the prior prompt lists the same sids in the same order around the
\* same claim, with the placeholder in place of the text of every cited span
\* (of every span when the step cites none) and the posterior's line for
\* every other span; the context spans are still spans of the trace.
C28_PromptsDifferInScrubbedLines ==
    PromptsBuilt =>
        LET ctx == Val(p_ctx).value IN
        /\ Val(p_out).post_prompt = PromptOfLines([i \in 1..Len(ctx) |-> SpanLine(ctx[i], TRUE)], p_claim)
        /\ Val(p_out).prior_prompt = PromptOfLines([i \in 1..Len(ctx) |-> IF IsScrubbed(ctx[i]) THEN PlaceholderLine(ctx[i]) ELSE SpanLine(ctx[i], TRUE)], p_claim)
        /\ \A i \in 1..Len(ctx) : \E j \in 1..Len(p_spans) : p_spans[j] = ctx[i]
\* a context of a cited span and an uncited one, neither showing the
\* placeholder in the posterior prompt
C28_Witness ==
    /\ PromptsBuilt
    /\ Len(Val(p_ctx).value) = 2
    /\ \E i, j \in 1..2 : IsScrubbed(Val(p_ctx).value[i]) /\ ~IsScrubbed(Val(p_ctx).value[j])
    /\ ~Contains(Val(p_out).post_prompt, DefaultPlaceholder)
    /\ Contains(Val(p_out).prior_prompt, DefaultPlaceholder)

(***************************************************************************)
(* The verdict and the summary of a returned dict (core.py)                *)
(***************************************************************************)
\* the returned dict carries no error field
NoErrorField == Returned /\ "error" \notin DOMAIN Val(r_out).value
FlaggedDetails(res) == {i \in 1..Len(res.details) : res.details[i].flagged}
ScoredInSummary(res) == IF r_entry = "detect" THEN res.summary.claims_scored ELSE res.summary.steps_scored
FlaggedInSummary(res) == IF r_entry = "detect" THEN res.summary.flagged_claims ELSE res.summary.flagged_steps

\* C29: in a returned dict without error field, flagged is true exactly when
\* a detail is flagged, the summary counts the flagged details and the
\* details; a trace of zero claims is answered without completion call, with
\* flagged = false.
C29_VerdictAgreesWithDetails ==
    /\ NoErrorField =>
          /\ Val(r_out).value.flagged <=> FlaggedDetails(Val(r_out).value) # {}
          /\ FlaggedInSummary(Val(r_out).value) = Cardinality(FlaggedDetails(Val(r_out).value))
          /\ ScoredInSummary(Val(r_out).value) = Len(Val(r_out).value.details)
    /\ (r_pc = "done" /\ ~IsNone(r_trace) /\ Val(r_trace).steps = <<>>) =>
          /\ ~CompletionCalled
          /\ NoErrorField
          /\ ~Val(r_out).value.flagged
          /\ Val(r_out).value.details = <<>>
\* a returned dict with a flagged detail and one that is not
C29_Witness ==
    /\ NoErrorField
    /\ FlaggedDetails(Val(r_out).value) \notin {{}, 1..Len(Val(r_out).value.details)}

(***************************************************************************)
(* The interval of the estimator (trace_budget.py, stage_ab.py)            *)
(***************************************************************************)
\* every log-probability of the answer position is <= 0
AllLogprobsNonPositive == \A i \in WithLogprob : Val(AnswerAlts[i].logprob) <= 0

\* C30: on a top-k distribution whose log-probabilities are all <= 0 the
\* estimator returns 0 <= p_lower <= p_upper <= 1, and p_lower = p_upper when
\* an alternative of the distribution matches YES.
C30_IntervalWellFormed ==
    (Estimated /\ AllLogprobsNonPositive) =>
        /\ 0 <= Val(e_out).p_yes_lower
        /\ Val(e_out).p_yes_lower <= Val(e_out).p_yes_upper
        /\ Val(e_out).p_yes_upper <= One
        /\ YesAlts # {} => Val(e_out).p_yes_lower = Val(e_out).p_yes_upper
\* two spellings of YES whose masses add up to more than 1
C30_Witness ==
    /\ Estimated
    /\ AllLogprobsNonPositive
    /\ MassOfAlts(YesAlts) > One
    /\ Val(e_out).p_yes_lower = One
    /\ Val(e_out).p_yes_upper = One

====
